---------------------------- MODULE Spec2Model ----------------------------
(***************************************************************************)
(* Model of the highlighter browser extension: the content script's text   *)
(* anchoring, restoration and mark rendering on a DOM tree, its session    *)
(* cache, and the background script's storage handlers.                    *)
(*                                                                         *)
(* A text is a sequence of one-character strings.  A DOM node is a record  *)
(*   [t, tag, hl, bg, nid, d, kids]                                        *)
(* t = "T" for a Text node (d its data) and "E" for an element (kids its   *)
(* child nodes, hl the data-hl-id attribute or NoId, bg its background     *)
(* colour, nid the identity of an element of the page as served).  The     *)
(* document is the body element; a node is addressed by its path, the      *)
(* sequence of 1-based child indexes from the body.                        *)
(***************************************************************************)
EXTENDS Integers, Sequences, FiniteSets, TLC

VARIABLES
    url,      \* window.location.href of the document session
    ver,      \* which served version of the page the session has loaded
    doc,      \* document.body of the session
    cache,    \* highlightCache: id -> last known highlight data
    pending,  \* restoreHighlights' items not yet processed (forEach position)
    msgs,     \* messages sent to the background and not handled yet
    store,    \* chrome.storage.local[highlights]: normalized url -> page record
    clock,    \* source of Date.now() / generateId()
    last,     \* observation: what the most recent handler did
    pre,      \* observation: document.body before the most recent handler
    wrapInfo, \* observation: id -> parent and parent text before its wrap
    probe,    \* inputs and result of the search functions applied alone
    inbox,    \* messages sent to the tab of the session and not handled yet
    running,  \* background: handlers and callbacks started and not completed
    settings, \* chrome.storage.local[settings]: <<>> or <<the stored object>>
    menus     \* chrome.contextMenus: the ids of the items that exist

vars == <<url, ver, doc, cache, pending, msgs, store, clock, last, pre,
          wrapInfo, probe, inbox, running, settings, menus>>

-----------------------------------------------------------------------------
(* Bounds of the model *)

\* highlights created in one behaviour
MaxHl == 2

\* messages in flight towards the background
MaxMsgs == 1

-----------------------------------------------------------------------------
(* Program constants *)

\* CONTEXT_SIZE: characters of prefix / suffix
CONTEXT_SIZE == 30

\* prefix.slice(-10) / suffix.slice(0, 10)
CTX_TAIL == 10

\* no data-hl-id attribute / no highlight
NoId == 0

\* no node (a path never starts with 0)
Null == <<0>>

\* getTextNodeXPath's null
NoXPath == <<[tag |-> "null", idx |-> 0]>>

-----------------------------------------------------------------------------
(* JavaScript string primitives on sequences of characters *)

Min(a, b) == IF a < b THEN a ELSE b
Max(a, b) == IF a > b THEN a ELSE b

Clamp(x, n) == Max(0, Min(x, n))

\* String.prototype.substring(a, b): both clamped to [0, length], swapped
\* when a > b
JsSubstring(s, a, b) ==
    LET x == Clamp(a, Len(s))
        y == Clamp(b, Len(s))
    IN  SubSeq(s, Min(x, y) + 1, Max(x, y))

\* String.prototype.slice(-n)
JsSliceLast(s, n) == SubSeq(s, Max(0, Len(s) - n) + 1, Len(s))

\* String.prototype.slice(0, n)
JsSliceFirst(s, n) == SubSeq(s, 1, Min(n, Len(s)))

IsSpace(c) == c = " "

\* String.prototype.trim()
RECURSIVE TrimLeft(_)
TrimLeft(s) ==
    IF s # <<>> /\ IsSpace(Head(s)) THEN TrimLeft(Tail(s)) ELSE s

RECURSIVE TrimRight(_)
TrimRight(s) ==
    IF s # <<>> /\ IsSpace(s[Len(s)]) THEN TrimRight(SubSeq(s, 1, Len(s) - 1)) ELSE s

JsTrim(s) == TrimRight(TrimLeft(s))

\* whether q occurs in s at 0-based index i
OccursAt(s, q, i) ==
    /\ i >= 0
    /\ i + Len(q) <= Len(s)
    /\ SubSeq(s, i + 1, i + Len(q)) = q

\* String.prototype.indexOf(q, from): the least index >= from, or -1
JsIndexOf(s, q, from) ==
    LET hits == {i \in Max(0, from)..Len(s) : OccursAt(s, q, i)}
    IN  IF hits = {} THEN -1 ELSE CHOOSE i \in hits : \A j \in hits : i <= j

\* String.prototype.includes(q)
JsIncludes(s, q) == JsIndexOf(s, q, 0) # -1

-----------------------------------------------------------------------------
(* DOM nodes *)

TextNode(data) ==
    [t |-> "T", tag |-> "#text", hl |-> NoId, bg |-> "", nid |-> 0,
     d |-> data, kids |-> <<>>]

Elem(tagName, n, children) ==
    [t |-> "E", tag |-> tagName, hl |-> NoId, bg |-> "", nid |-> n,
     d |-> <<>>, kids |-> children]

IsText(n) == n.t = "T"

\* the node at a path below root
RECURSIVE NodeAt(_, _)
NodeAt(root, p) ==
    IF p = <<>> THEN root ELSE NodeAt(root.kids[Head(p)], Tail(p))

ParentPath(p) == SubSeq(p, 1, Len(p) - 1)
ChildIndex(p) == p[Len(p)]

\* root with the children of the element at path p replaced
RECURSIVE SetKids(_, _, _)
SetKids(root, p, ks) ==
    IF p = <<>>
    THEN [root EXCEPT !.kids = ks]
    ELSE [root EXCEPT !.kids[Head(p)] = SetKids(root.kids[Head(p)], Tail(p), ks)]

\* root with the node at path p (an element) replaced by node n
SetNode(root, p, n) ==
    IF p = <<>> THEN n
    ELSE LET pp == ParentPath(p)
             ks == NodeAt(root, pp).kids
         IN  SetKids(root, pp, [ks EXCEPT ![ChildIndex(p)] = n])

\* concatenation of a sequence of sequences
RECURSIVE Flatten(_)
Flatten(ss) == IF ss = <<>> THEN <<>> ELSE Head(ss) \o Flatten(Tail(ss))

\* Node.textContent
RECURSIVE TextContent(_)
TextContent(n) ==
    IF IsText(n) THEN n.d
    ELSE Flatten([i \in 1..Len(n.kids) |-> TextContent(n.kids[i])])

\* paths of all nodes of the subtree of n, in document order (preorder),
\* relative to n
RECURSIVE AllPaths(_)
AllPaths(n) ==
    <<<<>>>> \o
    Flatten([i \in 1..Len(n.kids) |->
        LET sub == AllPaths(n.kids[i])
        IN  [j \in 1..Len(sub) |-> <<i>> \o sub[j]]])

\* TreeWalker(root = node at path p, SHOW_TEXT): the paths (from the body)
\* of the Text descendants in document order
TextPathsUnder(root, p) ==
    LET sub  == AllPaths(NodeAt(root, p))
        full == [j \in 1..Len(sub) |-> p \o sub[j]]
        IsT(q) == IsText(NodeAt(root, q))
    IN  SelectSeq(full, IsT)

\* document.querySelector('[data-hl-id="id"]'): the first element in
\* document order carrying the id, or Null
QuerySelectorHl(root, id) ==
    LET all == AllPaths(root)
        Has(q) == NodeAt(root, q).t = "E" /\ NodeAt(root, q).hl = id
        hit == SelectSeq(all, Has)
    IN  IF hit = <<>> THEN Null ELSE Head(hit)

\* all elements carrying the id
MarkersOf(root, id) ==
    LET all == AllPaths(root)
    IN  {all[i] : i \in {j \in 1..Len(all) :
            NodeAt(root, all[j]).t = "E" /\ NodeAt(root, all[j]).hl = id}}

\* Node.normalize(): in the whole subtree, empty Text nodes are removed and
\* adjacent Text nodes are merged
RECURSIVE MergeKids(_)
MergeKids(ks) ==
    IF ks = <<>> THEN <<>>
    ELSE LET h == Head(ks)
             r == MergeKids(Tail(ks))
         IN  IF IsText(h)
             THEN IF h.d = <<>> THEN r
                  ELSE IF r # <<>> /\ IsText(Head(r))
                       THEN <<TextNode(h.d \o Head(r).d)>> \o Tail(r)
                       ELSE <<h>> \o r
             ELSE <<h>> \o r

RECURSIVE Normalize(_)
Normalize(n) ==
    IF IsText(n) THEN n
    ELSE [n EXCEPT !.kids =
            MergeKids([i \in 1..Len(n.kids) |-> Normalize(n.kids[i])])]

-----------------------------------------------------------------------------
(* Ranges and the selection *)

\* document order on paths (a proper prefix comes first)
RECURSIVE LexLess(_, _)
LexLess(a, b) ==
    IF a = <<>> THEN b # <<>>
    ELSE IF b = <<>> THEN FALSE
    ELSE IF Head(a) # Head(b) THEN Head(a) < Head(b)
    ELSE LexLess(Tail(a), Tail(b))

\* the boundary points (container path p, offset o) inside the Text nodes
\* of the document, in document order
TextPoints(root) ==
    LET tps == TextPathsUnder(root, <<>>)
    IN  Flatten([i \in 1..Len(tps) |->
            [k \in 1..(Len(NodeAt(root, tps[i]).d) + 1) |->
                [p |-> tps[i], o |-> k - 1]]])

\* the selections offered to the handlers, as Ranges (start container and
\* offset, end container and offset, start not after end): every range
\* between two boundary points in Text nodes, and for every element with
\* children the range around its contents (boundaries in the element)
RangesOf(root) ==
    LET pts == TextPoints(root)
        all == AllPaths(root)
    IN  {[sp |-> pts[ij[1]].p, so |-> pts[ij[1]].o,
          ep |-> pts[ij[2]].p, eo |-> pts[ij[2]].o] :
            ij \in {x \in (1..Len(pts)) \X (1..Len(pts)) : x[1] <= x[2]}}
        \cup
        {[sp |-> all[i], so |-> 0, ep |-> all[i], eo |-> Len(NodeAt(root, all[i]).kids)] :
            i \in {k \in 1..Len(all) : NodeAt(root, all[k]).kids # <<>>}}

\* the part of the Text node at path tp that lies inside range r, as the
\* pair of offsets <<lo, hi>>
PortionIn(root, r, tp) ==
    LET n  == Len(NodeAt(root, tp).d)
        lo == IF IsText(NodeAt(root, r.sp))
              THEN IF tp = r.sp THEN r.so
                   ELSE IF LexLess(r.sp, tp) THEN 0 ELSE n
              ELSE IF LexLess(tp, r.sp \o <<r.so + 1>>) THEN n ELSE 0
        hi == IF IsText(NodeAt(root, r.ep))
              THEN IF tp = r.ep THEN r.eo
                   ELSE IF LexLess(tp, r.ep) THEN n ELSE 0
              ELSE IF LexLess(tp, r.ep \o <<r.eo + 1>>) THEN n ELSE 0
    IN  <<lo, hi>>

\* Selection.toString(): the text inside the range, Text node by Text node
RangeText(root, r) ==
    LET tps == TextPathsUnder(root, <<>>)
    IN  Flatten([i \in 1..Len(tps) |->
            LET lh == PortionIn(root, r, tps[i])
            IN  IF lh[1] < lh[2]
                THEN SubSeq(NodeAt(root, tps[i]).d, lh[1] + 1, lh[2])
                ELSE <<>>])

-----------------------------------------------------------------------------
(* XPath: a path is a sequence of steps [tag, idx]; idx = 0 is a step       *)
(* without a position predicate; the last step of a text path has tag      *)
(* "text()".  The leading /body is implicit.                               *)

\* indexes of the element children of n with the given tag name
SameTagKids(n, tagName) ==
    SelectSeq([i \in 1..Len(n.kids) |-> i],
              LAMBDA i : n.kids[i].t = "E" /\ n.kids[i].tag = tagName)

\* indexes of the Text children of n
TextKids(n) ==
    SelectSeq([i \in 1..Len(n.kids) |-> i], LAMBDA i : IsText(n.kids[i]))

\* position (1-based) of x in the sequence s of distinct values
PosIn(s, x) == CHOOSE k \in 1..Len(s) : s[k] = x

\* getElementXPath(element at path p)
RECURSIVE getElementXPath(_, _)
getElementXPath(root, p) ==
    IF p = <<>> THEN <<>>
    ELSE LET parent   == NodeAt(root, ParentPath(p))
             current  == NodeAt(root, p)
             siblings == SameTagKids(parent, current.tag)
             step     == IF Len(siblings) > 1
                         THEN [tag |-> current.tag, idx |-> PosIn(siblings, ChildIndex(p))]
                         ELSE [tag |-> current.tag, idx |-> 0]
         IN  getElementXPath(root, ParentPath(p)) \o <<step>>

\* getTextNodeXPath(text node at path p)
getTextNodeXPath(root, p) ==
    IF ~IsText(NodeAt(root, p)) \/ p = <<>> THEN NoXPath
    ELSE LET parent    == NodeAt(root, ParentPath(p))
             textNodes == TextKids(parent)
         IN  getElementXPath(root, ParentPath(p)) \o
             <<[tag |-> "text()", idx |-> PosIn(textNodes, ChildIndex(p))]>>

\* one location step applied to the context nodes ctx (paths in document
\* order): for each context node its matching children
XPathStep(root, ctx, step) ==
    Flatten([c \in 1..Len(ctx) |->
        LET n    == NodeAt(root, ctx[c])
            cand == IF step.tag = "text()" THEN TextKids(n)
                    ELSE SameTagKids(n, step.tag)
            pick == IF step.idx = 0 THEN cand
                    ELSE IF step.idx <= Len(cand) THEN <<cand[step.idx]>>
                    ELSE <<>>
        IN  [k \in 1..Len(pick) |-> ctx[c] \o <<pick[k]>>]])

RECURSIVE XPathEval(_, _, _)
XPathEval(root, ctx, steps) ==
    IF steps = <<>> THEN ctx
    ELSE XPathEval(root, XPathStep(root, ctx, Head(steps)), Tail(steps))

\* getElementByXPath(xpath): document.evaluate with FIRST_ORDERED_NODE_TYPE,
\* the path of the first node selected or Null
getElementByXPath(root, xpath) ==
    IF xpath = NoXPath THEN Null
    ELSE LET sel == XPathEval(root, <<<<>>>>, xpath)
         IN  IF sel = <<>> THEN Null ELSE Head(sel)

getTextNodeByXPath(root, xpath) == getElementByXPath(root, xpath)

-----------------------------------------------------------------------------
(* Selection and validation *)

NoInfo == [error |-> "no-selection"]

\* getSelectionInfo() for the selection range r of the document
getSelectionInfo(root, r) ==
    LET text == JsTrim(RangeText(root, r))
        startNode == NodeAt(root, r.sp)
        endNode   == NodeAt(root, r.ep)
    IN  IF text = <<>> THEN NoInfo
        ELSE IF r.sp # r.ep /\
                (\/ ~IsText(startNode)
                 \/ ~IsText(endNode)
                 \/ ParentPath(r.sp) # ParentPath(r.ep))
        THEN [error |-> "multi-node", text |-> text]
        ELSE IF ~IsText(startNode)
        THEN [error |-> "not-text-node", text |-> text]
        ELSE IF getTextNodeXPath(root, r.sp) = NoXPath
        THEN [error |-> "xpath-failed", text |-> text]
        ELSE LET fullText == startNode.d
             IN  [error |-> "",
                  text |-> text,
                  quote |-> text,
                  xpath |-> getTextNodeXPath(root, r.sp),
                  startOffset |-> r.so,
                  endOffset |-> r.eo,
                  prefix |-> JsSubstring(fullText, Max(0, r.so - CONTEXT_SIZE), r.so),
                  suffix |-> JsSubstring(fullText, r.eo,
                                         Min(Len(fullText), r.eo + CONTEXT_SIZE)),
                  range |-> r]

-----------------------------------------------------------------------------
(* Highlight creation *)

\* createHighlightSpan(id, color)
createHighlightSpan(id, color) ==
    [t |-> "E", tag |-> "span", hl |-> id, bg |-> color, nid |-> 0,
     d |-> <<>>, kids |-> <<>>]

\* Range.surroundContents throws InvalidStateError when the range partially
\* contains a node that is not a Text node: for boundaries in Text nodes,
\* when the two Text nodes have different parents
SurroundThrows(root, r) ==
    \/ ~IsText(NodeAt(root, r.sp))
    \/ ~IsText(NodeAt(root, r.ep))
    \/ ParentPath(r.sp) # ParentPath(r.ep)

\* Range.surroundContents(span) for a range that does not throw: the
\* contents are extracted into the span and the span is inserted at the
\* start; the Text nodes at the boundaries are split and keep the outer
\* parts, empty or not
SurroundContents(root, r, span) ==
    LET pp == ParentPath(r.sp)
        ks == NodeAt(root, pp).kids
        i  == ChildIndex(r.sp)
        j  == ChildIndex(r.ep)
        di == ks[i].d
        dj == ks[j].d
        inner == IF i = j
                 THEN IF r.so < r.eo
                      THEN <<TextNode(SubSeq(di, r.so + 1, r.eo))>>
                      ELSE <<>>
                 ELSE <<TextNode(SubSeq(di, r.so + 1, Len(di)))>> \o
                      SubSeq(ks, i + 1, j - 1) \o
                      <<TextNode(SubSeq(dj, 1, r.eo))>>
    IN  SetKids(root, pp,
            SubSeq(ks, 1, i - 1) \o
            <<TextNode(SubSeq(di, 1, r.so)),
              [span EXCEPT !.kids = inner],
              TextNode(SubSeq(dj, r.eo + 1, Len(dj)))>> \o
            SubSeq(ks, j + 1, Len(ks)))

\* applyHighlight(selectionInfo, color) with generateId() = id and the
\* creation time now: the document after it and the highlight data
\* (ok = FALSE for the null returned when surroundContents threw)
applyHighlight(root, selectionInfo, color, id, now) ==
    IF SurroundThrows(root, selectionInfo.range)
    THEN [ok |-> FALSE, doc |-> root, data |-> [id |-> NoId]]
    ELSE [ok |-> TRUE,
          doc |-> SurroundContents(root, selectionInfo.range,
                                   createHighlightSpan(id, color)),
          data |-> [id |-> id,
                    quote |-> IF selectionInfo.quote # <<>>
                              THEN selectionInfo.quote ELSE selectionInfo.text,
                    prefix |-> selectionInfo.prefix,
                    suffix |-> selectionInfo.suffix,
                    color |-> color,
                    xpath |-> selectionInfo.xpath,
                    startOffset |-> selectionInfo.startOffset,
                    endOffset |-> selectionInfo.endOffset,
                    note |-> <<>>,
                    createdAt |-> now]]

-----------------------------------------------------------------------------
(* Highlight restoration (3-tier strategy) *)

NoMatch == [node |-> Null, start |-> 0, end |-> 0]

\* the indexes at which the while loop of findQuoteWithContext finds quote
\* in text: indexOf from searchStart, then searchStart = index + 1
RECURSIVE ScanNode(_, _, _)
ScanNode(text, quote, searchStart) ==
    LET index == JsIndexOf(text, quote, searchStart)
    IN  IF index = -1 THEN <<>>
        ELSE <<index>> \o ScanNode(text, quote, index + 1)

\* findQuoteInElement with the end of the match one character too far
findQuoteInElementLong(root, p, quote) ==
    IF p = Null \/ quote = <<>> THEN NoMatch
    ELSE LET tps  == TextPathsUnder(root, p)
             hits == SelectSeq(tps,
                        LAMBDA q : JsIndexOf(NodeAt(root, q).d, quote, 0) # -1)
         IN  IF hits = <<>> THEN NoMatch
             ELSE LET index == JsIndexOf(NodeAt(root, Head(hits)).d, quote, 0)
                  IN  [node |-> Head(hits), start |-> index,
                       end |-> index + Len(quote) + 1]

\* findQuoteInElement(element at path p, quote): the first Text node of the
\* subtree, in document order, that contains quote, at its first index
findQuoteInElement(root, p, quote) ==
    IF p = Null \/ quote = <<>> THEN NoMatch
    ELSE LET tps  == TextPathsUnder(root, p)
             hits == SelectSeq(tps,
                        LAMBDA q : JsIndexOf(NodeAt(root, q).d, quote, 0) # -1)
         IN  IF hits = <<>> THEN NoMatch
             ELSE LET index == JsIndexOf(NodeAt(root, Head(hits)).d, quote, 0)
                  IN  [node |-> Head(hits), start |-> index,
                       end |-> index + Len(quote)]

\* a score that ignores the context
ContextScoreFlat(text, index, quote, prefix, suffix) == 1

\* the context match score findQuoteWithContext gives the occurrence of
\* quote at index in text
ContextScore(text, index, quote, prefix, suffix) ==
    LET actualPrefix == JsSubstring(text, index - Len(prefix), index)
        actualSuffix == JsSubstring(text, index + Len(quote),
                                    index + Len(quote) + Len(suffix))
        ps == IF prefix # <<>> /\ index >= Len(prefix)
              THEN IF actualPrefix = prefix THEN 2
                   ELSE IF JsIncludes(actualPrefix, JsSliceLast(prefix, CTX_TAIL))
                        THEN 1 ELSE 0
              ELSE 0
        ss == IF suffix # <<>> /\ index + Len(quote) + Len(suffix) <= Len(text)
              THEN IF actualSuffix = suffix THEN 2
                   ELSE IF JsIncludes(actualSuffix, JsSliceFirst(suffix, CTX_TAIL))
                        THEN 1 ELSE 0
              ELSE 0
    IN  1 + ps + ss

\* the occurrences with the Text nodes taken from the last to the first
ScanOrderBackwards(root, quote) ==
    LET tps == TextPathsUnder(root, <<>>)
    IN  Flatten([i \in 1..Len(tps) |->
            LET tp  == tps[Len(tps) + 1 - i]
                idx == ScanNode(NodeAt(root, tp).d, quote, 0)
            IN  [k \in 1..Len(idx) |->
                    [node |-> tp, start |-> idx[k],
                     end |-> idx[k] + Len(quote)]]])

\* the occurrences in the order the two nested loops visit them
ScanOrder(root, quote) ==
    LET tps == TextPathsUnder(root, <<>>)
    IN  Flatten([i \in 1..Len(tps) |->
            LET idx == ScanNode(NodeAt(root, tps[i]).d, quote, 0)
            IN  [k \in 1..Len(idx) |->
                    [node |-> tps[i], start |-> idx[k],
                     end |-> idx[k] + Len(quote)]]])

\* the update without bestScore = score: every occurrence replaces the match
RECURSIVE BestOfLast(_, _, _, _, _, _, _)
BestOfLast(root, occs, quote, prefix, suffix, bestMatch, bestScore) ==
    IF occs = <<>> THEN bestMatch
    ELSE LET o     == Head(occs)
             score == ContextScore(NodeAt(root, o.node).d, o.start,
                                   quote, prefix, suffix)
         IN  IF score > bestScore
             THEN BestOfLast(root, Tail(occs), quote, prefix, suffix, o, bestScore)
             ELSE BestOfLast(root, Tail(occs), quote, prefix, suffix,
                             bestMatch, bestScore)

\* the bestMatch / bestScore update over the occurrences still to visit
RECURSIVE BestOf(_, _, _, _, _, _, _)
BestOf(root, occs, quote, prefix, suffix, bestMatch, bestScore) ==
    IF occs = <<>> THEN bestMatch
    ELSE LET o     == Head(occs)
             score == ContextScore(NodeAt(root, o.node).d, o.start,
                                   quote, prefix, suffix)
         IN  IF score > bestScore
             THEN BestOf(root, Tail(occs), quote, prefix, suffix, o, score)
             ELSE BestOf(root, Tail(occs), quote, prefix, suffix,
                         bestMatch, bestScore)

\* findQuoteWithContext(quote, prefix, suffix) over document.body
findQuoteWithContext(root, quote, prefix, suffix) ==
    IF quote = <<>> THEN NoMatch
    ELSE BestOf(root, ScanOrder(root, quote), quote, prefix, suffix, NoMatch, 0)

\* applyHighlightToTextNode(textNode at path tp, startOffset, endOffset,
\* item): setStart / setEnd throw IndexSizeError for an offset beyond the
\* data, setEnd moves the start back when the end lies before it, and the
\* catch turns a throw into false
applyHighlightToTextNode(root, tp, startOffset, endOffset, item) ==
    LET n == Len(NodeAt(root, tp).d)
    IN  IF startOffset > n \/ endOffset > n
        THEN [ok |-> FALSE, doc |-> root]
        ELSE [ok |-> TRUE,
              doc |-> SurroundContents(root,
                        [sp |-> tp, so |-> Min(startOffset, endOffset),
                         ep |-> tp, eo |-> endOffset],
                        createHighlightSpan(item.id, item.color))]

\* the strategies without the second: after the offset check the search
\* goes to the whole document
ResolveItemNoParent(root, item) ==
    LET textNode == getTextNodeByXPath(root, item.xpath)
        exact    == /\ textNode # Null
                    /\ IsText(NodeAt(root, textNode))
                    /\ JsSubstring(NodeAt(root, textNode).d,
                                   item.startOffset, item.endOffset) = item.quote
        inDoc    == findQuoteWithContext(root, item.quote, item.prefix, item.suffix)
    IN  IF exact
        THEN [tier |-> 1, node |-> textNode,
              start |-> item.startOffset, end |-> item.endOffset]
        ELSE IF inDoc.node # Null
        THEN [tier |-> 3, node |-> inDoc.node,
              start |-> inDoc.start, end |-> inDoc.end]
        ELSE [tier |-> 0, node |-> Null, start |-> 0, end |-> 0]

\* the three strategies of tryRestoreHighlight: which one decides and the
\* match it hands to applyHighlightToTextNode
ResolveItem(root, item) ==
    LET textNode == getTextNodeByXPath(root, item.xpath)
        exact    == /\ textNode # Null
                    /\ IsText(NodeAt(root, textNode))
                    /\ JsSubstring(NodeAt(root, textNode).d,
                                   item.startOffset, item.endOffset) = item.quote
        parent   == IF textNode = Null THEN Null
                    ELSE IF IsText(NodeAt(root, textNode))
                         THEN ParentPath(textNode) ELSE textNode
        inElem   == findQuoteInElement(root, parent, item.quote)
        inDoc    == findQuoteWithContext(root, item.quote, item.prefix, item.suffix)
    IN  IF exact
        THEN [tier |-> 1, node |-> textNode,
              start |-> item.startOffset, end |-> item.endOffset]
        ELSE IF textNode # Null /\ inElem.node # Null
        THEN [tier |-> 2, node |-> inElem.node,
              start |-> inElem.start, end |-> inElem.end]
        ELSE IF inDoc.node # Null
        THEN [tier |-> 3, node |-> inDoc.node,
              start |-> inDoc.start, end |-> inDoc.end]
        ELSE [tier |-> 0, node |-> Null, start |-> 0, end |-> 0]

\* tryRestoreHighlight(item) once the strategies have decided on match m
RestoreMatch(root, item, m) ==
    IF m.tier = 0
    THEN [ok |-> FALSE, doc |-> root, tier |-> 0, node |-> Null,
          start |-> 0, end |-> 0]
    ELSE LET a == applyHighlightToTextNode(root, m.node, m.start, m.end, item)
         IN  [ok |-> a.ok, doc |-> a.doc, tier |-> m.tier, node |-> m.node,
              start |-> m.start, end |-> m.end]

\* tryRestoreHighlight(item)
tryRestoreHighlight(root, item) ==
    CHOOSE res \in {RestoreMatch(root, item, m) : m \in {ResolveItem(root, item)}} : TRUE

-----------------------------------------------------------------------------
(* Highlight management *)

\* removeHighlightSpan that removes the marker together with its children
removeHighlightSpanDrop(root, id) ==
    LET span == QuerySelectorHl(root, id)
    IN  IF span = Null \/ span = <<>>
        THEN [ok |-> FALSE, doc |-> root]
        ELSE LET pp == ParentPath(span)
                 ks == NodeAt(root, pp).kids
                 i  == ChildIndex(span)
                 moved == SubSeq(ks, 1, i - 1) \o SubSeq(ks, i + 1, Len(ks))
                 unwrapped == SetKids(root, pp, moved)
             IN  [ok |-> TRUE,
                  doc |-> SetNode(unwrapped, pp, Normalize(NodeAt(unwrapped, pp)))]

\* removeHighlightSpan(id): the first marker with the id is replaced by its
\* children and the parent is normalized
removeHighlightSpan(root, id) ==
    LET span == QuerySelectorHl(root, id)
    IN  IF span = Null \/ span = <<>>
        THEN [ok |-> FALSE, doc |-> root]
        ELSE LET pp == ParentPath(span)
                 ks == NodeAt(root, pp).kids
                 i  == ChildIndex(span)
                 moved == SubSeq(ks, 1, i - 1) \o ks[i].kids \o
                          SubSeq(ks, i + 1, Len(ks))
                 unwrapped == SetKids(root, pp, moved)
             IN  [ok |-> TRUE,
                  doc |-> SetNode(unwrapped, pp, Normalize(NodeAt(unwrapped, pp)))]

\* a recolour that unwraps the marker
updateHighlightColorUnwrap(root, id, newColor) ==
    removeHighlightSpan(root, id)

\* updateHighlightColor(id, newColor)
updateHighlightColor(root, id, newColor) ==
    LET span == QuerySelectorHl(root, id)
    IN  IF span = Null
        THEN [ok |-> FALSE, doc |-> root]
        ELSE [ok |-> TRUE,
              doc |-> SetNode(root, span, [NodeAt(root, span) EXCEPT !.bg = newColor])]

-----------------------------------------------------------------------------
(* Background script: storage operations on the highlights map st *)

\* normalizeUrl(url): origin + pathname, query and hash dropped; a url is
\* the pair <<origin and path, query and hash>>
normalizeUrl(u) == <<u[1], "">>

EmptyPage == [title |-> "", items |-> <<>>]

\* getHighlightsForUrl(url)
getHighlightsForUrl(st, u) ==
    IF normalizeUrl(u) \in DOMAIN st THEN st[normalizeUrl(u)] ELSE EmptyPage

\* saveHighlightsForUrl that keeps the record of a page without items
saveHighlightsForUrlKeep(st, u, title, items) ==
    [k \in DOMAIN st \cup {normalizeUrl(u)} |->
        IF k = normalizeUrl(u) THEN [title |-> title, items |-> items]
        ELSE st[k]]

\* saveHighlightsForUrl(url, title, items)
saveHighlightsForUrl(st, u, title, items) ==
    IF Len(items) = 0
    THEN [k \in DOMAIN st \ {normalizeUrl(u)} |-> st[k]]
    ELSE [k \in DOMAIN st \cup {normalizeUrl(u)} |->
            IF k = normalizeUrl(u) THEN [title |-> title, items |-> items]
            ELSE st[k]]

\* addHighlight(url, title, highlightData)
addHighlight(st, u, title, highlightData) ==
    LET pageData == getHighlightsForUrl(st, u)
        newTitle == IF title # "" THEN title ELSE pageData.title
    IN  saveHighlightsForUrl(st, u, newTitle, Append(pageData.items, highlightData))

\* removeHighlight(url, highlightId)
removeHighlight(st, u, highlightId) ==
    LET pageData == getHighlightsForUrl(st, u)
    IN  saveHighlightsForUrl(st, u, pageData.title,
            SelectSeq(pageData.items, LAMBDA item : item.id # highlightId))

\* a spread in which the fields of a win over those of updates
SpreadKeep(a, updates) ==
    [k \in DOMAIN a \cup DOMAIN updates |->
        IF k \in DOMAIN a THEN a[k] ELSE updates[k]]

\* { ...a, ...updates }
Spread(a, updates) ==
    [k \in DOMAIN a \cup DOMAIN updates |->
        IF k \in DOMAIN updates THEN updates[k] ELSE a[k]]

\* updateHighlight(url, highlightId, updates)
updateHighlight(st, u, highlightId, updates) ==
    LET pageData == getHighlightsForUrl(st, u)
        hits == {i \in 1..Len(pageData.items) : pageData.items[i].id = highlightId}
    IN  IF hits = {} THEN st
        ELSE LET index == CHOOSE i \in hits : \A j \in hits : i <= j
             IN  saveHighlightsForUrl(st, u, pageData.title,
                    [pageData.items EXCEPT ![index] = Spread(@, updates)])

-----------------------------------------------------------------------------
(* The pages served to the document session *)

Txt(str) == TextNode(str)

\* the second paragraph of every version: "a", an empty inline element and
\* "  b" under one parent
SecondPara ==
    Elem("p", 2, <<Txt(<<"a">>), Elem("i", 3, <<>>), Txt(<<" ", " ", "b">>)>>)

\* the text of the second page, with "quick brown fox" at 4 and at 25
FoxText ==
    <<"T", "h", "e", " ", "q", "u", "i", "c", "k", " ", "b", "r",
      "o", "w", "n", " ", "f", "o", "x", ".", " ", "T", "h", "e",
      " ", "q", "u", "i", "c", "k", " ", "b", "r", "o", "w", "n",
      " ", "f", "o", "x", " ", "j", "u", "m", "p", "s", ".">>

FoxQuote == SubSeq(FoxText, 26, 40)

FoxPara == Elem("p", 1, <<Txt(FoxText)>>)

\* version 1 is the page as first served; 2 has a paragraph inserted before
\* the text; 3 and 5 have the text of the first paragraph edited; 4 has the
\* content moved into a new container.  Version 11 is the second page as
\* first served; 12 to 17 have a paragraph inserted before its text (empty,
\* with other text, with the quote in several places), 18 a div
PageVersion(v) ==
    CASE v = 1 -> Elem("body", 10, <<
                    Elem("p", 1, <<Txt(<<"a", "b", " ", "a", "b">>)>>),
                    SecondPara>>)
      [] v = 2 -> Elem("body", 10, <<
                    Elem("p", 4, <<Txt(<<"b", " ", "a">>)>>),
                    Elem("p", 1, <<Txt(<<"a", "b", " ", "a", "b">>)>>),
                    SecondPara>>)
      [] v = 3 -> Elem("body", 10, <<
                    Elem("p", 1, <<Txt(<<"b", " ", "a", "b", " ", "a", "b">>)>>),
                    SecondPara>>)
      [] v = 4 -> Elem("body", 10, <<
                    Elem("div", 5, <<
                        Elem("p", 1, <<Txt(<<"a", "b", " ", "a", "b">>)>>),
                        SecondPara>>)>>)
      [] v = 5 -> Elem("body", 10, <<
                    Elem("p", 1, <<Txt(<<"b", " ", "a", "b">>)>>),
                    SecondPara>>)
      [] v = 11 -> Elem("body", 10, <<FoxPara>>)
      [] v = 12 -> Elem("body", 10, <<Elem("p", 4, <<>>), FoxPara>>)
      [] v = 13 -> Elem("body", 10, <<
                    Elem("p", 4, <<Txt(<<"H", "e", "l", "l", "o", ".">>)>>), FoxPara>>)
      [] v = 14 -> Elem("body", 10, <<
                    Elem("p", 4, <<Txt(FoxQuote)>>), FoxPara>>)
      [] v = 15 -> Elem("body", 10, <<
                    Elem("p", 4, <<Txt(<<"A", " ">> \o FoxQuote \o <<" ", "j", "u", "m", "p", "s", ".">>)>>),
                    FoxPara>>)
      [] v = 16 -> Elem("body", 10, <<
                    Elem("p", 4, <<Elem("b", 6, <<Txt(<<"x">>)>>), Txt(FoxQuote)>>),
                    FoxPara>>)
      [] v = 17 -> Elem("body", 10, <<
                    Elem("p", 4, <<Txt(SubSeq(FoxText, 1, 40) \o <<" ", "n", "a", "p", "s", ".">>)>>),
                    FoxPara>>)
      [] v = 18 -> Elem("body", 10, <<
                    Elem("div", 5, <<Txt(FoxQuote)>>), FoxPara>>)

Versions == 1..5

\* the versions of the page on which the user makes selections
Authoring == {1, 11}

FoxVersions == 11..18

\* DEFAULT_SETTINGS.lastUsedColor, the colour of the keyboard shortcut
DefaultColor == "#FFEB3B"

\* colours of the toolbar
Colors == {"#FFEB3B", "#69F0AE"}

PageTitle == "Title"

-----------------------------------------------------------------------------
(* Observations *)

\* how the boundaries of a selection lie: in one Text node, in two Text
\* nodes with one parent, in two Text nodes with different parents, or with
\* a boundary in an element
SelShape(root, r) ==
    IF ~IsText(NodeAt(root, r.sp)) \/ ~IsText(NodeAt(root, r.ep)) THEN "element"
    ELSE IF r.sp = r.ep THEN "single"
    ELSE IF ParentPath(r.sp) = ParentPath(r.ep) THEN "siblings"
    ELSE "apart"

\* identity of the element at path p: its marker id or its page identity
NodeKey(root, p) ==
    IF NodeAt(root, p).hl # NoId THEN <<"hl", NodeAt(root, p).hl>>
    ELSE <<"el", NodeAt(root, p).nid>>

\* the text of the range applyHighlightToTextNode builds for the match of
\* res (setStart, then setEnd), the empty text when it threw
RestoredText(root, res) ==
    IF res.ok
    THEN SubSeq(NodeAt(root, res.node).d, Min(res.start, res.end) + 1, res.end)
    ELSE <<>>

\* the last handler that ran: what it was given and what it did.  For a
\* creation, rtOk and rtText are the outcome of tryRestoreHighlight for the
\* new anchor on the document as it was before the marker was inserted
NoOp ==
    [op |-> "init", id |-> NoId, ok |-> FALSE, err |-> "", shape |-> "",
     tier |-> 0, node |-> Null, start |-> 0, end |-> 0, sent |-> FALSE,
     hadCache |-> FALSE, quote |-> <<>>, rtOk |-> FALSE, rtText |-> <<>>]

\* f with x mapped to v
Put(f, x, v) == [k \in DOMAIN f \cup {x} |-> IF k = x THEN v ELSE f[k]]

Empty == [k \in {} |-> 0]

-----------------------------------------------------------------------------
(* Document session: handlers of the content script *)

SessionIdle == pending = <<>>

\* DO_HIGHLIGHT with the selection r and payload.color = color
DoHighlight(r, color) ==
    /\ SessionIdle
    /\ ver \in Authoring
    /\ clock <= MaxHl
    /\ Len(msgs) < MaxMsgs
    /\ pre' = doc
    /\ \E selectionInfo \in {getSelectionInfo(doc, r)} :
         IF selectionInfo.error # ""
         THEN /\ last' = [NoOp EXCEPT !.op = "create", !.err = selectionInfo.error,
                                      !.shape = SelShape(doc, r)]
              /\ UNCHANGED <<doc, cache, msgs, clock, wrapInfo>>
         ELSE \E res \in {applyHighlight(doc, selectionInfo, color, clock, clock)} :
              IF res.ok
              THEN \E rt \in {tryRestoreHighlight(doc, res.data)} :
                   /\ doc' = res.doc
                   /\ cache' = Put(cache, res.data.id, res.data)
                   /\ msgs' = Append(msgs, [type |-> "CONTENT_ADD_HIGHLIGHT",
                                            url |-> url, title |-> PageTitle,
                                            highlightData |-> res.data])
                   /\ clock' = clock + 1
                   /\ last' = [NoOp EXCEPT !.op = "create", !.id = clock, !.ok = TRUE,
                                           !.shape = SelShape(doc, r), !.node = r.sp,
                                           !.start = r.so, !.end = r.eo, !.sent = TRUE,
                                           !.hadCache = clock \in DOMAIN cache,
                                           !.quote = res.data.quote,
                                           !.rtOk = rt.ok,
                                           !.rtText = RestoredText(doc, rt)]
                   /\ wrapInfo' = Put(wrapInfo, clock,
                                      [pkey |-> NodeKey(doc, ParentPath(r.sp)),
                                       ptext |-> TextContent(NodeAt(doc, ParentPath(r.sp)))])
              ELSE /\ clock' = clock + 1
                   /\ last' = [NoOp EXCEPT !.op = "create", !.id = clock,
                                           !.err = "apply-failed",
                                           !.shape = SelShape(doc, r),
                                           !.hadCache = clock \in DOMAIN cache]
                   /\ UNCHANGED <<doc, cache, msgs, wrapInfo>>
    /\ UNCHANGED <<url, ver, pending, store, probe, inbox, running, settings, menus>>

\* the page is loaded again (any served version): a new
\* document and an empty cache, and init() asks the background for the
\* stored highlights
Reload(v) ==
    /\ SessionIdle
    /\ Len(msgs) < MaxMsgs
    /\ \A i \in 1..Len(msgs) : msgs[i].type # "CONTENT_REQUEST_RESTORE"
    /\ ver' = v
    /\ doc' = PageVersion(v)
    /\ pre' = PageVersion(v)
    /\ cache' = Empty
    /\ msgs' = Append(msgs, [type |-> "CONTENT_REQUEST_RESTORE", url |-> url])
    /\ last' = [NoOp EXCEPT !.op = "reload"]
    /\ wrapInfo' = Empty
    /\ UNCHANGED <<url, pending, store, clock, probe, inbox, running, settings, menus>>

\* a turn of restoreHighlights that writes the offsets it found back to the
\* stored anchor
restoreItemHealing(item) ==
    \E res \in {tryRestoreHighlight(doc, item)} :
        /\ cache' = Put(cache, item.id, item)
        /\ pre' = doc
        /\ doc' = res.doc
        /\ last' = [NoOp EXCEPT !.op = "restore", !.id = item.id,
                                !.ok = res.ok, !.tier = res.tier,
                                !.node = res.node, !.start = res.start,
                                !.end = res.end]
        /\ store' = updateHighlight(store, url, item.id,
                                    [startOffset |-> res.start, endOffset |-> res.end])
        /\ pending' = Tail(pending)
        /\ UNCHANGED <<url, ver, msgs, clock, probe, wrapInfo, inbox, running, settings, menus>>

\* a turn of the forEach that does not look for a marker of the item
restoreItemAlways(item) ==
    \E present \in {FALSE} :
    \E res \in {IF present THEN RestoreMatch(doc, item, [tier |-> 0])
                 ELSE tryRestoreHighlight(doc, item)} :
        /\ cache' = Put(cache, item.id, item)
        /\ pre' = doc
        /\ doc' = IF present THEN doc ELSE res.doc
        /\ last' = IF present
                   THEN [NoOp EXCEPT !.op = "skip", !.id = item.id,
                                     !.hadCache = item.id \in DOMAIN cache]
                   ELSE [NoOp EXCEPT !.op = "restore", !.id = item.id,
                                     !.ok = res.ok, !.tier = res.tier,
                                     !.node = res.node, !.start = res.start,
                                     !.end = res.end,
                                     !.hadCache = item.id \in DOMAIN cache]
        /\ wrapInfo' = IF ~present /\ res.ok
                       THEN Put(wrapInfo, item.id,
                                [pkey |-> NodeKey(doc, ParentPath(res.node)),
                                 ptext |-> TextContent(NodeAt(doc, ParentPath(res.node)))])
                       ELSE wrapInfo
        /\ pending' = Tail(pending)
        /\ UNCHANGED <<url, ver, msgs, store, clock, probe, inbox, running, settings, menus>>

\* one turn of the forEach of restoreHighlights(items)
restoreItem(item) ==
    \E present \in {QuerySelectorHl(doc, item.id) # Null} :
    \E res \in {IF present THEN RestoreMatch(doc, item, [tier |-> 0])
                 ELSE tryRestoreHighlight(doc, item)} :
        /\ cache' = Put(cache, item.id, item)
        /\ pre' = doc
        /\ doc' = IF present THEN doc ELSE res.doc
        /\ last' = IF present
                   THEN [NoOp EXCEPT !.op = "skip", !.id = item.id,
                                     !.hadCache = item.id \in DOMAIN cache]
                   ELSE [NoOp EXCEPT !.op = "restore", !.id = item.id,
                                     !.ok = res.ok, !.tier = res.tier,
                                     !.node = res.node, !.start = res.start,
                                     !.end = res.end,
                                     !.hadCache = item.id \in DOMAIN cache]
        /\ wrapInfo' = IF ~present /\ res.ok
                       THEN Put(wrapInfo, item.id,
                                [pkey |-> NodeKey(doc, ParentPath(res.node)),
                                 ptext |-> TextContent(NodeAt(doc, ParentPath(res.node)))])
                       ELSE wrapInfo
        /\ pending' = Tail(pending)
        /\ UNCHANGED <<url, ver, msgs, store, clock, probe, inbox, running, settings, menus>>

\* a turn of restoreHighlights taken for the last of the items
RestoreStepLast ==
    /\ pending # <<>>
    /\ restoreItem(pending[Len(pending)])

RestoreStep ==
    /\ pending # <<>>
    /\ restoreItem(Head(pending))

\* click on the marker of id, then the delete button of the toolbar
ToolbarDelete(id) ==
    \E span \in {QuerySelectorHl(doc, id)} :
        /\ SessionIdle
        /\ span # Null
        /\ Len(msgs) < MaxMsgs
        /\ pre' = doc
        /\ \E res \in {removeHighlightSpan(doc, id)} :
            /\ doc' = res.doc
            /\ last' = [NoOp EXCEPT !.op = "unwrap", !.id = id, !.ok = res.ok,
                                    !.node = ParentPath(span), !.sent = TRUE,
                                    !.hadCache = id \in DOMAIN cache]
        /\ msgs' = Append(msgs, [type |-> "CONTENT_REMOVE_HIGHLIGHT",
                                 url |-> url, highlightId |-> id])
        /\ UNCHANGED <<url, ver, cache, pending, store, clock, wrapInfo, probe, inbox, running, settings, menus>>

\* click on the marker of id, then a colour button of the toolbar
ToolbarColor(id, color) ==
    LET res == updateHighlightColor(doc, id, color)
    IN  /\ SessionIdle
        /\ QuerySelectorHl(doc, id) # Null
        /\ Len(msgs) < MaxMsgs
        /\ pre' = doc
        /\ doc' = res.doc
        /\ msgs' = Append(msgs, [type |-> "CONTENT_UPDATE_HIGHLIGHT",
                                 url |-> url, highlightId |-> id,
                                 updates |-> [color |-> color]])
        /\ last' = [NoOp EXCEPT !.op = "recolor", !.id = id, !.ok = res.ok,
                                !.sent = TRUE, !.hadCache = id \in DOMAIN cache]
        /\ UNCHANGED <<url, ver, cache, pending, store, clock, wrapInfo, probe, inbox, running, settings, menus>>

-----------------------------------------------------------------------------
(* Background script: the onMessage handler, one message at a time *)

\* the highlights map after the handler of message m
HandleStore(st, m) ==
    CASE m.type = "CONTENT_ADD_HIGHLIGHT" ->
            addHighlight(st, m.url, m.title, m.highlightData)
      [] m.type = "CONTENT_REMOVE_HIGHLIGHT" ->
            removeHighlight(st, m.url, m.highlightId)
      [] m.type = "CONTENT_UPDATE_HIGHLIGHT" ->
            updateHighlight(st, m.url, m.highlightId, m.updates)
      [] OTHER -> st

\* the background handles the oldest message; the answer to
\* CONTENT_REQUEST_RESTORE starts restoreHighlights in the session
BgHandle ==
    /\ msgs # <<>>
    /\ SessionIdle
    /\ LET m == Head(msgs)
       IN  /\ store' = HandleStore(store, m)
           /\ pending' = IF m.type = "CONTENT_REQUEST_RESTORE"
                         THEN getHighlightsForUrl(store, m.url).items
                         ELSE pending
    /\ msgs' = Tail(msgs)
    /\ UNCHANGED <<url, ver, doc, cache, clock, last, pre, wrapInfo, probe, inbox, running, settings, menus>>

-----------------------------------------------------------------------------
(* The document session with the background *)

Init ==
    /\ url = <<"https://site/a", "?x=1#top">>
    /\ ver = 1
    /\ doc = PageVersion(1)
    /\ cache = Empty
    /\ pending = <<>>
    /\ msgs = <<>>
    /\ store = Empty
    /\ clock = 1
    /\ last = NoOp
    /\ pre = PageVersion(1)
    /\ wrapInfo = Empty
    /\ probe = 0
    /\ inbox = <<>>
    /\ running = <<>>
    /\ settings = <<>>
    /\ menus = {}

Next ==
    \/ \E r \in RangesOf(doc) : DoHighlight(r, DefaultColor)
    \/ \E v \in Versions : Reload(v)
    \/ RestoreStep
    \/ \E id \in 1..MaxHl : ToolbarDelete(id)
    \/ BgHandle

Spec == Init /\ [][Next]_vars

-----------------------------------------------------------------------------
(* Locator codec: encode, then resolve at once *)

\* C1: for every selection getSelectionInfo accepts with start and end in
\* one Text node, tryRestoreHighlight for the anchor just produced, on the
\* document as it was when the selection was made, succeeds and builds a
\* range whose text is the quote of the anchor
RoundTripYieldsQuote ==
    (last.op = "create" /\ last.ok /\ last.shape = "single")
        => (last.rtOk /\ last.rtText = last.quote)

\* a single-node selection with surrounding white space was encoded and the
\* round trip gave back the quote
RoundTripWitness ==
    /\ last.op = "create" /\ last.ok /\ last.shape = "single"
    /\ last.quote # <<>>
    /\ Len(last.quote) < last.end - last.start
    /\ last.rtOk /\ last.rtText = last.quote

\* C2: the anchor a creation hands to storage has
\* quote = substring(text of the owning Text node when it was created,
\* startOffset, endOffset)
StoredQuoteIsSubstring ==
    (last.op = "create" /\ last.ok /\ msgs # <<>>)
        => LET h == msgs[Len(msgs)].highlightData
           IN  h.quote = JsSubstring(NodeAt(pre, last.node).d,
                                     h.startOffset, h.endOffset)

\* C3: a selection with start and end in two different Text nodes and some
\* text other than white space is rejected with the multi-node error, no
\* marker is inserted and no anchor is sent, siblings under one parent
\* included
MultiNodeRejected ==
    (/\ last.op = "create"
     /\ last.shape \in {"siblings", "apart"}
     /\ last.err # "no-selection")
        => (/\ last.err = "multi-node"
            /\ ~last.ok
            /\ ~last.sent
            /\ doc = pre)

-----------------------------------------------------------------------------
(* Restoration *)

\* the places (Text node, index) at which quote occurs in the subtree of
\* the node at path p
OccurrencesUnder(root, p, quote) ==
    UNION {{<<p \o sub, i>> : i \in {k \in 0..Len(NodeAt(root, p \o sub).d) :
                                   OccursAt(NodeAt(root, p \o sub).d, quote, k)}} :
           sub \in {x \in {AllPaths(NodeAt(root, p))[j] :
                              j \in 1..Len(AllPaths(NodeAt(root, p)))} :
                        IsText(NodeAt(root, p \o x))}}

\* C6: when the stored offsets do not give the quote in the node the path
\* resolves to and the quote occurs exactly once inside the element the path
\* resolves to, tier 2 marks that occurrence; and when the quote occurs in
\* exactly one place of the whole document, restoration marks that place
UniqueQuoteResolved ==
    (last.op = "restore") =>
        LET item == cache[last.id]
            tn   == getTextNodeByXPath(pre, item.xpath)
            el   == IF tn = Null THEN <<>>
                    ELSE IF IsText(NodeAt(pre, tn)) THEN ParentPath(tn) ELSE tn
            stale == \/ ~IsText(NodeAt(pre, tn))
                     \/ ~OccursAt(NodeAt(pre, tn).d, item.quote, item.startOffset)
                     \/ item.endOffset # item.startOffset + Len(item.quote)
            inEl  == OccurrencesUnder(pre, el, item.quote)
            inDoc == OccurrencesUnder(pre, <<>>, item.quote)
            marked == <<last.node, last.start>>
        IN  /\ (tn # Null /\ stale /\ Cardinality(inEl) = 1)
                => (last.ok /\ last.tier = 2 /\ marked \in inEl
                    /\ last.end = last.start + Len(item.quote))
            /\ (Cardinality(inDoc) = 1)
                => (last.ok /\ marked \in inDoc
                    /\ last.end = last.start + Len(item.quote))

\* C7: a turn of restoreHighlights writes nothing to storage, sends no
\* message to the background and keeps the anchor as it was stored
RestoreIsPureQuery ==
    [][pending # <<>> =>
        /\ store' = store
        /\ msgs' = msgs
        /\ cache'[Head(pending).id] = Head(pending)]_vars

\* an anchor was not found on this load and is still stored as it was
RestoreNotFoundWitness ==
    /\ last.op = "restore" /\ ~last.ok /\ last.tier = 0
    /\ normalizeUrl(url) \in DOMAIN store
    /\ \E i \in 1..Len(store[normalizeUrl(url)].items) :
            store[normalizeUrl(url)].items[i] = cache[last.id]

-----------------------------------------------------------------------------
(* Mark renderer *)

\* C8: the text of the document is the text of the page as served whatever
\* markers were inserted and removed, and after removeHighlightSpan the
\* parent the marker was inserted under has the text content it had before
\* the marker was inserted
WrapUnwrapKeepsText ==
    /\ TextContent(doc) = TextContent(PageVersion(ver))
    /\ (/\ last.op = "unwrap" /\ last.ok
        /\ last.id \in DOMAIN wrapInfo
        /\ NodeKey(doc, last.node) = wrapInfo[last.id].pkey)
            => TextContent(NodeAt(doc, last.node)) = wrapInfo[last.id].ptext

\* the second marker was removed after the first one had been removed too
WrapUnwrapWitness ==
    /\ last.op = "unwrap" /\ last.ok /\ last.id = 2
    /\ 1 \in DOMAIN wrapInfo
    /\ QuerySelectorHl(doc, 1) = Null
    /\ NodeKey(doc, last.node) = wrapInfo[2].pkey
    /\ TextContent(NodeAt(doc, last.node)) = wrapInfo[2].ptext

-----------------------------------------------------------------------------
(* The background script alone: content messages of several pages *)

\* most anchors stored at a time
MaxItems == 3

\* addresses the messages come from: two of one page, one of another
StoreUrls ==
    {<<"https://site/a", "">>, <<"https://site/a", "?x=1#top">>,
     <<"https://site/b", "">>}

\* the anchor of id as a document session would send it
StoreAnchor(id) ==
    [id |-> id, quote |-> <<"a">>, prefix |-> <<>>, suffix |-> <<>>,
     color |-> DefaultColor,
     xpath |-> <<[tag |-> "p", idx |-> 0], [tag |-> "text()", idx |-> 1]>>,
     startOffset |-> 0, endOffset |-> 1, note |-> <<>>, createdAt |-> id]

\* ids of the anchors in the highlights map
StoredIds(st) ==
    UNION {{st[k].items[i].id : i \in 1..Len(st[k].items)} : k \in DOMAIN st}

StoreMessages ==
    {[type |-> "CONTENT_ADD_HIGHLIGHT", url |-> u, title |-> PageTitle,
      highlightId |-> id, highlightData |-> StoreAnchor(id),
      updates |-> [color |-> DefaultColor]] : u \in StoreUrls, id \in 1..MaxItems}
    \cup
    {[type |-> "CONTENT_REMOVE_HIGHLIGHT", url |-> u, title |-> PageTitle,
      highlightId |-> id, highlightData |-> StoreAnchor(id),
      updates |-> [color |-> DefaultColor]] : u \in StoreUrls, id \in 1..MaxItems}
    \cup
    {[type |-> "CONTENT_UPDATE_HIGHLIGHT", url |-> u, title |-> PageTitle,
      highlightId |-> id, highlightData |-> StoreAnchor(id),
      updates |-> [color |-> c]] : u \in StoreUrls, id \in 1..MaxItems, c \in Colors}

\* the onMessage handler for message m; an added anchor has a new id
OnMessage(m) ==
    /\ (m.type = "CONTENT_ADD_HIGHLIGHT") => m.highlightId \notin StoredIds(store)
    /\ store' = HandleStore(store, m)
    /\ last' = [op |-> m.type, url |-> m.url, id |-> m.highlightId,
                n |-> Len(getHighlightsForUrl(store, m.url).items)]
    /\ UNCHANGED <<url, ver, doc, cache, pending, msgs, clock, pre, wrapInfo, probe, inbox, running, settings, menus>>

InitStore ==
    /\ url = <<"https://site/a", "">>
    /\ ver = 1
    /\ doc = PageVersion(1)
    /\ cache = Empty
    /\ pending = <<>>
    /\ msgs = <<>>
    /\ store = Empty
    /\ clock = 1
    /\ last = [op |-> "init", url |-> <<"https://site/a", "">>, id |-> NoId, n |-> 0]
    /\ pre = PageVersion(1)
    /\ wrapInfo = Empty
    /\ probe = 0
    /\ inbox = <<>>
    /\ running = <<>>
    /\ settings = <<>>
    /\ menus = {}

NextStore == \E m \in StoreMessages : OnMessage(m)

SpecStore == InitStore /\ [][NextStore]_vars

\* C10: after removeHighlight(url, id) every other page has the record it
\* had; the page of url has no record when all its anchors had the id, and
\* otherwise its record holds the anchors with another id, each as it was
\* and in the order they were in
RemoveLeavesTheRest ==
    [][last'.op = "CONTENT_REMOVE_HIGHLIGHT" =>
        LET k      == normalizeUrl(last'.url)
            before == IF k \in DOMAIN store THEN store[k].items ELSE <<>>
            keep   == {i \in 1..Len(before) : before[i].id # last'.id}
        IN  /\ \A o \in (DOMAIN store \cup DOMAIN store') \ {k} :
                    o \in DOMAIN store /\ o \in DOMAIN store' /\ store'[o] = store[o]
            /\ (keep = {}) => k \notin DOMAIN store'
            /\ (keep # {}) =>
                    /\ k \in DOMAIN store'
                    /\ Len(store'[k].items) = Cardinality(keep)
                    /\ \A i \in keep :
                          store'[k].items[Cardinality({j \in keep : j <= i})] = before[i]]_vars

\* the only anchor of a page was removed while another page had anchors:
\* the page has no record and the other page still has its own
RemoveOnlyAnchorWitness ==
    /\ last.op = "CONTENT_REMOVE_HIGHLIGHT" /\ last.n = 1
    /\ normalizeUrl(last.url) \notin DOMAIN store
    /\ store # Empty

-----------------------------------------------------------------------------
(* The whole-document search alone *)

\* most Text nodes of a searched document
MaxNodes == 2

SearchQuote == <<"a", "b">>

LongPrefix == <<"0", "1", "2", "3", "4", "5", "6", "7", "8", "9", "x">>
LongSuffix == <<"y", "0", "1", "2", "3", "4", "5", "6", "7", "8", "9">>

\* texts of the paragraphs of the searched documents
SearchTexts ==
    {<<"c", " ", "a", "b", " ", "d">>,
     <<"e", " ", "a", "b", " ", "f">>,
     <<"a", "b">>,
     <<"c", " ", "a", "b", " ", "f">>,
     <<"a", "b", " ", "c", " ", "a", "b", " ", "d">>,
     LongPrefix \o SearchQuote \o LongSuffix,
     <<"z", "1", "2", "3", "4", "5", "6", "7", "8", "9", "x", "a", "b", "y", "0", "1", "2", "3", "4", "5", "6", "7", "8", "z">>,
     <<"1", "2", "3", "4", "5", "6", "7", "8", "9", "x", "a", "b", "y", "0", "1", "2", "3", "4", "5", "6", "7", "8">>}

\* stored <<prefix, suffix>> pairs
SearchContexts ==
    {<<<<>>, <<>>>>,
     <<<<"c", " ">>, <<" ", "d">>>>,
     <<<<"c", " ">>, <<>>>>,
     <<<<>>, <<" ", "d">>>>,
     <<LongPrefix, LongSuffix>>}

\* the document with one paragraph per text
SearchDoc(texts) ==
    Elem("body", 10, [i \in 1..Len(texts) |-> Elem("p", i, <<Txt(texts[i])>>)])

SearchDocs ==
    {SearchDoc(ts) : ts \in UNION {[1..n -> SearchTexts] : n \in 1..MaxNodes}}

InitSearch ==
    /\ url = <<"https://site/a", "">>
    /\ ver = 1
    /\ doc \in SearchDocs
    /\ cache = Empty
    /\ pending = <<>>
    /\ msgs = <<>>
    /\ store = Empty
    /\ clock = 1
    /\ last = NoOp
    /\ pre = PageVersion(1)
    /\ wrapInfo = Empty
    /\ probe \in {[quote |-> SearchQuote, prefix |-> c[1], suffix |-> c[2],
                    done |-> FALSE, res |-> NoMatch] : c \in SearchContexts}
    /\ inbox = <<>>
    /\ running = <<>>
    /\ settings = <<>>
    /\ menus = {}

\* findQuoteWithContext(quote, prefix, suffix) is called on the document
Search ==
    /\ ~probe.done
    /\ probe' = [probe EXCEPT !.done = TRUE,
                              !.res = findQuoteWithContext(doc, probe.quote,
                                                           probe.prefix, probe.suffix)]
    /\ UNCHANGED <<url, ver, doc, cache, pending, msgs, store, clock, last, pre,
                   wrapInfo, inbox, running, settings, menus>>

NextSearch == Search

SpecSearch == InitSearch /\ [][NextSearch]_vars

\* the text around the occurrence o = <<Text node, index>> is the stored
\* prefix and the stored suffix
ExactContext(root, o, quote, prefix, suffix) ==
    LET text == NodeAt(root, o[1]).d
    IN  /\ o[2] >= Len(prefix)
        /\ SubSeq(text, o[2] - Len(prefix) + 1, o[2]) = prefix
        /\ o[2] + Len(quote) + Len(suffix) <= Len(text)
        /\ SubSeq(text, o[2] + Len(quote) + 1, o[2] + Len(quote) + Len(suffix)) = suffix

\* C5: findQuoteWithContext returns an occurrence of the quote whose context
\* score no other occurrence exceeds (nothing when there is none), and when
\* an occurrence has exactly the stored prefix and suffix around it and
\* others have not, the one returned has, whichever comes first
SearchReturnsBest ==
    probe.done =>
        LET occs  == OccurrencesUnder(doc, <<>>, probe.quote)
            found == <<probe.res.node, probe.res.start>>
            Score(o) == ContextScore(NodeAt(doc, o[1]).d, o[2], probe.quote,
                                     probe.prefix, probe.suffix)
        IN  /\ (occs = {}) => probe.res = NoMatch
            /\ (occs # {}) =>
                    /\ found \in occs
                    /\ probe.res.end = probe.res.start + Len(probe.quote)
                    /\ \A o \in occs : Score(o) <= Score(found)
                    /\ (\E o \in occs :
                            ExactContext(doc, o, probe.quote, probe.prefix, probe.suffix))
                        => ExactContext(doc, found, probe.quote,
                                        probe.prefix, probe.suffix)

\* two occurrences, the first without the stored context and the second
\* with exactly it: the second was returned
SearchSecondWitness ==
    /\ probe.done
    /\ probe.prefix # <<>> /\ probe.suffix # <<>>
    /\ Cardinality(OccurrencesUnder(doc, <<>>, probe.quote)) = 2
    /\ probe.res.node = <<2, 1>>
    /\ ExactContext(doc, <<<<2, 1>>, probe.res.start>>, probe.quote,
                    probe.prefix, probe.suffix)
    /\ \A o \in OccurrencesUnder(doc, <<1>>, probe.quote) :
            ~ExactContext(doc, o, probe.quote, probe.prefix, probe.suffix)

-----------------------------------------------------------------------------
(* The document session on the second page *)

\* the user selects the first or the second "quick brown fox" of the page
\* as served
FoxSelections ==
    {[sp |-> <<1, 1>>, so |-> 4, ep |-> <<1, 1>>, eo |-> 19],
     [sp |-> <<1, 1>>, so |-> 25, ep |-> <<1, 1>>, eo |-> 40]}

FoxHighlight ==
    /\ doc = PageVersion(11)
    /\ \E r \in FoxSelections, color \in Colors : DoHighlight(r, color)

InitFox ==
    /\ url = <<"https://site/fox", "">>
    /\ ver = 11
    /\ doc = PageVersion(11)
    /\ cache = Empty
    /\ pending = <<>>
    /\ msgs = <<>>
    /\ store = Empty
    /\ clock = 1
    /\ last = NoOp
    /\ pre = PageVersion(11)
    /\ wrapInfo = Empty
    /\ probe = 0
    /\ inbox = <<>>
    /\ running = <<>>
    /\ settings = <<>>
    /\ menus = {}

NextFox ==
    \/ FoxHighlight
    \/ \E v \in FoxVersions : Reload(v)
    \/ RestoreStep
    \/ \E id \in 1..MaxHl : ToolbarDelete(id)
    \/ \E id \in 1..MaxHl, color \in Colors : ToolbarColor(id, color)
    \/ BgHandle

SpecFox == InitFox /\ [][NextFox]_vars

\* tryRestoreHighlight ran for the anchor of the second occurrence on a
\* version with a paragraph inserted before the text, the document being
\* as served (no marker in it yet)
FoxSecondRestored ==
    /\ last.op = "restore"
    /\ ver \in 12..17
    /\ pre = PageVersion(ver)
    /\ cache[last.id].quote = FoxQuote
    /\ cache[last.id].startOffset = 25
    /\ cache[last.id].suffix = SubSeq(FoxText, 41, 47)

\* the second occurrence of the text was marked
FoxSecondMarked ==
    /\ last.ok
    /\ NodeKey(pre, ParentPath(last.node)) = <<"el", 1>>
    /\ last.start = 25
    /\ last.end = 40

-----------------------------------------------------------------------------
(* The background script's stored data: content messages, import, clear *)

\* an anchor of id as a snapshot file carries it: other values than the
\* anchor a document session sent under the same id
SnapshotAnchor(id) ==
    [id |-> id, quote |-> <<"z">>, prefix |-> <<>>, suffix |-> <<>>,
     color |-> "#69F0AE",
     xpath |-> <<[tag |-> "p", idx |-> 0], [tag |-> "text()", idx |-> 1]>>,
     startOffset |-> 0, endOffset |-> 1, note |-> <<"s">>, createdAt |-> 9]

\* the highlights objects of the snapshot files: a page with a stored id
\* and a new one, a page without items, a key with query and hash, a page
\* that carries one id twice
Snapshots ==
    { [k \in {<<"https://site/a", "">>} |->
          [title |-> "Snapshot", items |-> <<SnapshotAnchor(1), SnapshotAnchor(3)>>]],
      [k \in {<<"https://site/b", "">>} |->
          [title |-> "", items |-> <<>>]],
      [k \in {<<"https://site/a", "?x=1#top">>} |->
          [title |-> "Snapshot", items |-> <<SnapshotAnchor(2)>>]],
      [k \in {<<"https://site/b", "">>} |->
          [title |-> "Snapshot", items |-> <<SnapshotAnchor(2), StoreAnchor(2)>>]] }

\* updates that also carry a quote and a creation time
EditUpdatesAny ==
    {[color |-> "#69F0AE"], [note |-> <<"n">>, tags |-> <<"#t">>],
     [quote |-> <<"q">>, createdAt |-> 0]}

\* the updates the edit surfaces send: a colour, or a note with its tags
EditUpdates ==
    {[color |-> "#69F0AE"], [note |-> <<"n">>, tags |-> <<"#t">>]}

\* IMPORT_HIGHLIGHTS that takes the page of the snapshot for a stored page
importHighlightsOverwrite(st, imported) ==
    [k \in DOMAIN st \cup DOMAIN imported |->
        IF k \in DOMAIN imported THEN imported[k] ELSE st[k]]

\* IMPORT_HIGHLIGHTS: a page without record takes the page data as it is;
\* a stored page gets the items whose id it does not hold, pushed at the
\* end, and the title when it has none
importHighlights(st, imported) ==
    [k \in DOMAIN st \cup DOMAIN imported |->
        IF k \notin DOMAIN imported THEN st[k]
        ELSE IF k \notin DOMAIN st THEN imported[k]
        ELSE LET existingIds == {st[k].items[i].id : i \in 1..Len(st[k].items)}
                 newItems == SelectSeq(imported[k].items,
                                 LAMBDA i : i.id \notin existingIds)
             IN  [title |-> IF st[k].title = "" /\ imported[k].title # ""
                            THEN imported[k].title ELSE st[k].title,
                  items |-> st[k].items \o newItems]]

\* the highlights map after the handler of message m
HandleData(st, m) ==
    CASE m.type = "IMPORT_HIGHLIGHTS" -> importHighlights(st, m.highlights)
      [] m.type = "CLEAR_ALL_DATA" -> Empty
      [] OTHER -> HandleStore(st, m)

DataMessage(type, u, id, updates, highlights) ==
    [type |-> type, url |-> u, title |-> PageTitle, highlightId |-> id,
     highlightData |-> StoreAnchor(id), updates |-> updates,
     highlights |-> highlights]

\* most ids the document sessions make anchors with
MaxData == 2

\* addresses the content messages come from
DataUrls == {<<"https://site/a", "?x=1#top">>, <<"https://site/b", "">>}

DataMessages ==
    {DataMessage(t, u, id, [color |-> DefaultColor], Empty) :
        t \in {"CONTENT_ADD_HIGHLIGHT", "CONTENT_REMOVE_HIGHLIGHT"},
        u \in DataUrls, id \in 1..MaxData}
    \cup
    {DataMessage("CONTENT_UPDATE_HIGHLIGHT", u, id, updates, Empty) :
        u \in DataUrls, id \in 1..MaxData, updates \in EditUpdates}
    \cup
    {DataMessage("IMPORT_HIGHLIGHTS", <<"", "">>, NoId, [color |-> DefaultColor], h) :
        h \in Snapshots}
    \cup
    {DataMessage("CLEAR_ALL_DATA", <<"", "">>, NoId, [color |-> DefaultColor], Empty)}

\* what is kept of the message handled: the payload of an edit or an
\* import, the type of the others
Seen(m) ==
    IF m.type \in {"CONTENT_UPDATE_HIGHLIGHT", "IMPORT_HIGHLIGHTS"} THEN m
    ELSE DataMessage(m.type, <<"", "">>, NoId, [color |-> DefaultColor], Empty)

\* the onMessage handler for message m; an added anchor has a new id
OnDataMessage(m) ==
    /\ (m.type = "CONTENT_ADD_HIGHLIGHT") => m.highlightId \notin StoredIds(store)
    /\ store' = HandleData(store, m)
    /\ last' = Seen(m)
    /\ UNCHANGED <<url, ver, doc, cache, pending, msgs, clock, pre, wrapInfo, probe, inbox, running, settings, menus>>

InitData ==
    /\ url = <<"https://site/a", "">>
    /\ ver = 1
    /\ doc = PageVersion(1)
    /\ cache = Empty
    /\ pending = <<>>
    /\ msgs = <<>>
    /\ store = Empty
    /\ clock = 1
    /\ last = DataMessage("init", <<"", "">>, NoId, [color |-> DefaultColor], Empty)
    /\ pre = PageVersion(1)
    /\ wrapInfo = Empty
    /\ probe = 0
    /\ inbox = <<>>
    /\ running = <<>>
    /\ settings = <<>>
    /\ menus = {}

NextData == \E m \in DataMessages : OnDataMessage(m)

SpecData == InitData /\ [][NextData]_vars

\* ids of the items of a page record
PageIds(items) == {items[i].id : i \in 1..Len(items)}

\* C11: after IMPORT_HIGHLIGHTS every page of the storage or the snapshot
\* has a record whose items are the items stored before, each with all its
\* fields and in their order, followed by the snapshot's items of that page
\* whose id the page did not hold, in the snapshot's order
ImportIsUnionMerge ==
    [][last'.type = "IMPORT_HIGHLIGHTS" =>
        \A k \in DOMAIN store \cup DOMAIN last'.highlights :
            LET old   == IF k \in DOMAIN store THEN store[k].items ELSE <<>>
                snap  == IF k \in DOMAIN last'.highlights
                         THEN last'.highlights[k].items ELSE <<>>
                fresh == {i \in 1..Len(snap) : snap[i].id \notin PageIds(old)}
            IN  /\ k \in DOMAIN store'
                /\ Len(store'[k].items) = Len(old) + Cardinality(fresh)
                /\ \A i \in 1..Len(old) : store'[k].items[i] = old[i]
                /\ \A i \in fresh :
                      store'[k].items[Len(old) + Cardinality({j \in fresh : j <= i})]
                          = snap[i]]_vars

\* a snapshot with a stored id under other values and with a new id was
\* imported: the stored anchor is as the session sent it, recoloured or
\* not, and the new one follows it
ImportMergedWitness ==
    /\ last.type = "IMPORT_HIGHLIGHTS"
    /\ <<"https://site/a", "">> \in DOMAIN last.highlights
    /\ <<"https://site/a", "">> \in DOMAIN store
    /\ LET items == store[<<"https://site/a", "">>].items
       IN  /\ Len(items) = 2
           /\ items[1].id = 1 /\ items[1].quote = <<"a">> /\ items[1].createdAt = 1
           /\ items[2] = SnapshotAnchor(3)

\* C12: after updateHighlight(url, id, updates) the first anchor of the page
\* with that id has the fields of updates with their values and every other
\* field as it was; the title, the other anchors of the page, their order
\* and the other pages are as they were; when the page has no anchor with
\* that id the storage is as it was
UpdateMerges ==
    [][last'.type = "CONTENT_UPDATE_HIGHLIGHT" =>
        LET k     == normalizeUrl(last'.url)
            items == IF k \in DOMAIN store THEN store[k].items ELSE <<>>
            hits  == {i \in 1..Len(items) : items[i].id = last'.highlightId}
        IN  IF hits = {} THEN store' = store
            ELSE LET index == CHOOSE i \in hits : \A j \in hits : i <= j
                 IN  /\ DOMAIN store' = DOMAIN store
                     /\ \A o \in DOMAIN store \ {k} : store'[o] = store[o]
                     /\ store'[k].title = store[k].title
                     /\ Len(store'[k].items) = Len(items)
                     /\ \A i \in 1..Len(items) :
                            i # index => store'[k].items[i] = items[i]
                     /\ DOMAIN store'[k].items[index]
                            = DOMAIN items[index] \cup DOMAIN last'.updates
                     /\ \A f \in DOMAIN last'.updates :
                            store'[k].items[index][f] = last'.updates[f]
                     /\ \A f \in DOMAIN items[index] \ DOMAIN last'.updates :
                            store'[k].items[index][f] = items[index][f]]_vars

\* a recoloured anchor got a note and tags while its page held another
\* anchor: it has the note, the tags, its colour and its quote
UpdateMergedWitness ==
    /\ last.type = "CONTENT_UPDATE_HIGHLIGHT"
    /\ "note" \in DOMAIN last.updates
    /\ normalizeUrl(last.url) \in DOMAIN store
    /\ LET items == store[normalizeUrl(last.url)].items
       IN  /\ Len(items) = 2
           /\ \E i \in 1..2 :
                 /\ items[i].id = last.highlightId
                 /\ items[i].note = <<"n">>
                 /\ "tags" \in DOMAIN items[i]
                 /\ items[i].color = "#69F0AE"
                 /\ items[i].quote = <<"a">>
                 /\ items[3 - i].note = <<>>

-----------------------------------------------------------------------------
(* The document session with the background, the popup and the dashboard *)

\* the note the edit surfaces save
EditedNote == <<"n">>

\* the version served while the other surfaces are in use
SyncVersions == {1}

\* the selection of the text "ab" at the start of the first paragraph
SyncSelections(root) ==
    {r \in RangesOf(root) :
        /\ r.sp = <<1, 1>> /\ r.ep = <<1, 1>> /\ IsText(NodeAt(root, r.sp))
        /\ r.so = 0 /\ r.eo = 2
        /\ SubSeq(NodeAt(root, r.sp).d, 1, 2) = <<"a", "b">>}

\* anchors created while the other surfaces are in use
MaxSync == 1

SyncHighlight ==
    /\ clock <= MaxSync
    /\ \E r \in SyncSelections(doc) : DoHighlight(r, DefaultColor)

\* the save button of the note modal opened from the toolbar of marker id
NoteSave(id) ==
    /\ SessionIdle
    /\ QuerySelectorHl(doc, id) # Null
    /\ Len(msgs) < MaxMsgs
    /\ pre' = doc
    /\ msgs' = Append(msgs, [type |-> "CONTENT_UPDATE_HIGHLIGHT",
                             url |-> url, highlightId |-> id,
                             updates |-> [note |-> EditedNote, tags |-> <<"#t">>]])
    /\ last' = [NoOp EXCEPT !.op = "note", !.id = id, !.ok = TRUE, !.sent = TRUE,
                            !.hadCache = id \in DOMAIN cache]
    /\ UNCHANGED <<url, ver, doc, cache, pending, store, clock, wrapInfo, probe, inbox, running, settings, menus>>

\* the id a content message is about
MessageId(m) ==
    CASE m.type = "CONTENT_ADD_HIGHLIGHT" -> m.highlightData.id
      [] m.type \in {"CONTENT_REMOVE_HIGHLIGHT", "CONTENT_UPDATE_HIGHLIGHT"} -> m.highlightId
      [] OTHER -> NoId

\* the onMessage handler for the oldest content message.  The handler has
\* no catch: when a storage call rejects nothing is stored and sendResponse
\* is never called; otherwise the answer to CONTENT_REQUEST_RESTORE starts
\* restoreHighlights in the session
BgSync ==
    /\ msgs # <<>>
    /\ SessionIdle
    /\ \E storageOk \in BOOLEAN :
       \E m \in {Head(msgs)} :
           /\ store' = IF storageOk THEN HandleStore(store, m) ELSE store
           /\ pending' = IF storageOk /\ m.type = "CONTENT_REQUEST_RESTORE"
                         THEN getHighlightsForUrl(store, m.url).items
                         ELSE pending
           /\ last' = [NoOp EXCEPT !.op = m.type, !.id = MessageId(m),
                                   !.ok = storageOk,
                                   !.err = IF storageOk THEN "" ELSE "no-response"]
    /\ msgs' = Tail(msgs)
    /\ UNCHANGED <<url, ver, doc, cache, clock, pre, wrapInfo, probe, inbox, running, settings, menus>>

\* ids of the anchors the popup lists for the tab of the session
ListedIds == PageIds(getHighlightsForUrl(store, url).items)

\* POPUP_REMOVE_HIGHLIGHT for the tab of the session
PopupRemove(id) ==
    /\ id \in ListedIds
    /\ Len(inbox) < MaxMsgs
    /\ store' = removeHighlight(store, url, id)
    /\ inbox' = Append(inbox, [type |-> "REMOVE_HIGHLIGHT_VISUAL", highlightId |-> id,
                               updates |-> [color |-> DefaultColor]])
    /\ last' = [NoOp EXCEPT !.op = "POPUP_REMOVE_HIGHLIGHT", !.id = id, !.ok = TRUE]
    /\ UNCHANGED <<url, ver, doc, cache, pending, msgs, clock, pre, wrapInfo, probe,
                   running, settings, menus>>

\* POPUP_UPDATE_HIGHLIGHT for the tab of the session
PopupUpdate(id, updates) ==
    /\ id \in ListedIds
    /\ Len(inbox) < MaxMsgs
    /\ store' = updateHighlight(store, url, id, updates)
    /\ inbox' = Append(inbox, [type |-> "UPDATE_HIGHLIGHT_DATA", highlightId |-> id,
                               updates |-> updates])
    /\ last' = [NoOp EXCEPT !.op = "POPUP_UPDATE_HIGHLIGHT", !.id = id, !.ok = TRUE]
    /\ UNCHANGED <<url, ver, doc, cache, pending, msgs, clock, pre, wrapInfo, probe,
                   running, settings, menus>>

\* the delete button of the dashboard: its message REMOVE_HIGHLIGHT has no
\* case in the background and is answered with an error
DashboardDelete(id) ==
    /\ id \in StoredIds(store)
    /\ last' = [NoOp EXCEPT !.op = "REMOVE_HIGHLIGHT", !.id = id,
                            !.err = "Unknown message type"]
    /\ UNCHANGED <<url, ver, doc, cache, pending, msgs, store, clock, pre, wrapInfo,
                   probe, inbox, running, settings, menus>>

\* the clear button of the dashboard: CLEAR_ALL_DATA
DashboardClear ==
    /\ store # Empty
    /\ store' = Empty
    /\ last' = [NoOp EXCEPT !.op = "CLEAR_ALL_DATA", !.ok = TRUE]
    /\ UNCHANGED <<url, ver, doc, cache, pending, msgs, clock, pre, wrapInfo,
                   probe, inbox, running, settings, menus>>

\* the content script's handler for the oldest message sent to the tab
TabReceive ==
    /\ inbox # <<>>
    /\ SessionIdle
    /\ pre' = doc
    /\ \E m \in {Head(inbox)} :
        IF m.type = "REMOVE_HIGHLIGHT_VISUAL"
        THEN \E res \in {removeHighlightSpan(doc, m.highlightId)} :
                /\ doc' = res.doc
                /\ cache' = cache
                /\ last' = [NoOp EXCEPT !.op = m.type, !.id = m.highlightId,
                                        !.ok = res.ok]
        ELSE /\ cache' = Put(cache, m.highlightId,
                             Spread(IF m.highlightId \in DOMAIN cache
                                    THEN cache[m.highlightId] ELSE Empty,
                                    m.updates))
             /\ doc' = IF "color" \in DOMAIN m.updates
                       THEN updateHighlightColor(doc, m.highlightId, m.updates.color).doc
                       ELSE doc
             /\ last' = [NoOp EXCEPT !.op = m.type, !.id = m.highlightId, !.ok = TRUE]
    /\ inbox' = Tail(inbox)
    /\ UNCHANGED <<url, ver, pending, msgs, store, clock, wrapInfo, probe,
                   running, settings, menus>>

InitSync ==
    /\ url = <<"https://site/a", "?x=1#top">>
    /\ ver = 1
    /\ doc = PageVersion(1)
    /\ cache = Empty
    /\ pending = <<>>
    /\ msgs = <<>>
    /\ store = Empty
    /\ clock = 1
    /\ last = NoOp
    /\ pre = PageVersion(1)
    /\ wrapInfo = Empty
    /\ probe = 0
    /\ inbox = <<>>
    /\ running = <<>>
    /\ settings = <<>>
    /\ menus = {}

NextSync ==
    \/ SyncHighlight
    \/ \E v \in SyncVersions : Reload(v)
    \/ RestoreStep
    \/ \E id \in 1..MaxSync : ToolbarDelete(id)
    \/ \E id \in 1..MaxSync : ToolbarColor(id, "#69F0AE")
    \/ \E id \in 1..MaxSync : NoteSave(id)
    \/ BgSync
    \/ \E id \in 1..MaxSync : PopupRemove(id)
    \/ \E id \in 1..MaxSync, updates \in EditUpdates : PopupUpdate(id, updates)
    \/ \E id \in 1..MaxSync : DashboardDelete(id)
    \/ DashboardClear
    \/ TabReceive

SpecSync == InitSync /\ [][NextSync]_vars

\* C13: the caller of CONTENT_REQUEST_RESTORE gets a page record as the
\* answer, whatever the storage did
LoadAlwaysAnswered == last.op = "CONTENT_REQUEST_RESTORE" => last.ok

\* the stored anchor of id on the page of the session, none as [id |-> NoId]
StoredAnchor(st, id) ==
    LET items == getHighlightsForUrl(st, url).items
        hits  == {i \in 1..Len(items) : items[i].id = id}
    IN  IF hits = {} THEN [id |-> NoId]
        ELSE items[CHOOSE i \in hits : \A j \in hits : i <= j]

\* C14: when the popup or the dashboard deletes or changes the stored
\* anchor of a marker the session renders, the same handler sends the tab
\* of the session a message about that anchor
ForeignChangeIsPushed ==
    [][\A id \in 1..MaxSync :
            (/\ MarkersOf(doc, id) # {}
             /\ StoredAnchor(store, id) # StoredAnchor(store', id)
             /\ last'.op \in {"POPUP_REMOVE_HIGHLIGHT", "POPUP_UPDATE_HIGHLIGHT",
                              "REMOVE_HIGHLIGHT", "CLEAR_ALL_DATA"})
            => /\ Len(inbox') = Len(inbox) + 1
               /\ inbox'[Len(inbox')].highlightId = id]_vars

\* C15: when DO_HIGHLIGHT has answered success for an anchor, the anchor is
\* in the storage
SuccessMeansSaved ==
    (last.op = "create" /\ last.ok) => last.id \in StoredIds(store)

\* C17: after the colour button of the toolbar the cache entry of the
\* marker has the colour of the marker, and after the save button of the
\* note modal it has the note that was saved
CacheHoldsEdits ==
    /\ (last.op = "recolor" /\ last.ok) =>
            /\ last.id \in DOMAIN cache
            /\ cache[last.id].color = NodeAt(doc, QuerySelectorHl(doc, last.id)).bg
    /\ (last.op = "note") =>
            /\ last.id \in DOMAIN cache
            /\ cache[last.id].note = EditedNote

-----------------------------------------------------------------------------
(* The document session over its loads: creation, restoration, toolbar *)

\* the texts selected: one that every version has, one that some have not
LifeQuotes == {<<"a", "b">>, <<"a", "b", " ", "a", "b">>}

\* the selections of one of the texts inside one Text node
LifeSelections(root) ==
    {r \in RangesOf(root) :
        /\ r.sp = r.ep /\ IsText(NodeAt(root, r.sp))
        /\ SubSeq(NodeAt(root, r.sp).d, r.so + 1, r.eo) \in LifeQuotes}

LifeHighlight == \E r \in LifeSelections(doc) : DoHighlight(r, DefaultColor)

NextLife ==
    \/ LifeHighlight
    \/ \E v \in Versions : Reload(v)
    \/ RestoreStep
    \/ \E id \in 1..MaxHl : ToolbarDelete(id)
    \/ \E id \in 1..MaxHl : ToolbarColor(id, "#69F0AE")
    \/ BgHandle

SpecLife == Init /\ [][NextLife]_vars

\* the document has a marker of id
Rendered(root, id) == MarkersOf(root, id) # {}

\* C16: in one load a marker of id appears only by the creation of the
\* anchor or by its turn of restoreHighlights; an anchor the session has met
\* (it has a cache entry) that has no marker and does not wait for its turn,
\* because it was not found or was unwrapped, gets no marker; the unwrap
\* leaves no marker of the id; the recolour of a marker leaves it in place
AnchorLifeCycle ==
    [][\A id \in 1..MaxHl :
        /\ (~Rendered(doc, id) /\ Rendered(doc', id)) =>
                \/ last'.op = "create" /\ last'.id = id /\ id = clock
                \/ last'.op = "restore" /\ last'.id = id
                      /\ pending # <<>> /\ Head(pending).id = id
        /\ (id \in DOMAIN cache /\ ~Rendered(doc, id) /\ id \notin PageIds(pending))
                => ~Rendered(doc', id)
        /\ (last'.op = "unwrap" /\ last'.id = id) => ~Rendered(doc', id)
        /\ (last'.op = "recolor" /\ last'.id = id)
                => (Rendered(doc, id) <=> Rendered(doc', id))]_vars

\* the anchor of one marker was not found in this load and the marker of
\* the other, restored, was recoloured: the first has no marker, the second
\* has its marker
LifeCycleWitness ==
    /\ last.op = "recolor"
    /\ \E id \in 1..MaxHl :
          /\ id # last.id
          /\ id \in DOMAIN cache /\ last.id \in DOMAIN cache
          /\ ~Rendered(doc, id) /\ Rendered(doc, last.id)
          /\ id \in PageIds(getHighlightsForUrl(store, url).items)
          /\ wrapInfo # Empty /\ id \notin DOMAIN wrapInfo

\* restoreHighlights(items) run as a whole on the document root: the
\* forEach takes the items from the first to the last
RECURSIVE restoreHighlights(_, _)
restoreHighlights(root, items) ==
    IF items = <<>> THEN root
    ELSE restoreHighlights(
            CHOOSE d \in {IF QuerySelectorHl(root, Head(items).id) # Null THEN root
                          ELSE tryRestoreHighlight(root, Head(items)).doc} : TRUE,
            Tail(items))

\* C18: when the last turn of restoreHighlights of a load has run and every
\* marker of the document belongs to a stored anchor of the page, the
\* document is the served document with the stored anchors restored one
\* after the other in the order of the page record
RestoreInStoredOrder ==
    [][(/\ pending # <<>> /\ pending' = <<>>
        /\ \A id \in 1..MaxHl :
              Rendered(doc', id) => id \in PageIds(getHighlightsForUrl(store, url).items))
       => doc' = restoreHighlights(PageVersion(ver),
                                   getHighlightsForUrl(store, url).items)]_vars

\* a load of another version has restored both stored anchors, one marker
\* inside the other
RestoreNestedWitness ==
    /\ pending = <<>> /\ last.op = "restore" /\ last.ok
    /\ ver \notin Authoring
    /\ Len(getHighlightsForUrl(store, url).items) = 2
    /\ \E p \in MarkersOf(doc, 1), q \in MarkersOf(doc, 2) :
          \/ Len(p) < Len(q) /\ SubSeq(q, 1, Len(p)) = p
          \/ Len(q) < Len(p) /\ SubSeq(p, 1, Len(q)) = q
    /\ doc = restoreHighlights(PageVersion(ver), getHighlightsForUrl(store, url).items)

-----------------------------------------------------------------------------
(* Stored data: what the operations keep *)

\* C19: no page record of the storage has an empty list of items
NoEmptyPageRecord == \A k \in DOMAIN store : store[k].items # <<>>

\* C20: CONTENT_UPDATE_HIGHLIGHT and IMPORT_HIGHLIGHTS leave every stored
\* anchor in its page and at its place, with the id, the quote and the
\* createdAt it had
AnchorIdentityKept ==
    [][last'.type \in {"CONTENT_UPDATE_HIGHLIGHT", "IMPORT_HIGHLIGHTS"} =>
        \A k \in DOMAIN store :
            /\ k \in DOMAIN store'
            /\ Len(store'[k].items) >= Len(store[k].items)
            /\ \A i \in 1..Len(store[k].items) :
                  /\ store'[k].items[i].id = store[k].items[i].id
                  /\ store'[k].items[i].quote = store[k].items[i].quote
                  /\ store'[k].items[i].createdAt = store[k].items[i].createdAt]_vars

\* an anchor that was recoloured and given a note has met a snapshot with
\* its id under another quote and creation time, and has kept its own
IdentityKeptWitness ==
    /\ last.type = "IMPORT_HIGHLIGHTS"
    /\ <<"https://site/a", "">> \in DOMAIN last.highlights
    /\ <<"https://site/a", "">> \in DOMAIN store
    /\ LET item == store[<<"https://site/a", "">>].items[1]
       IN  /\ item.id = 1 /\ item.note = EditedNote /\ item.color = "#69F0AE"
           /\ item.quote = <<"a">> /\ item.createdAt = 1
           /\ last.highlights[<<"https://site/a", "">>].items[1].id = 1
           /\ last.highlights[<<"https://site/a", "">>].items[1].quote # item.quote

-----------------------------------------------------------------------------
(* The whole-document search: scores and ties *)

\* the score of the occurrence of quote at index in text by the rule: 1,
\* plus 2 when the text just before it (as much of it as there is, at most
\* the length of the prefix) is the prefix, else plus 1 when that text
\* contains the last ten characters of the prefix; the same for the suffix
\* and the text just after it; an empty prefix or suffix adds nothing
RuleScore(text, index, quote, prefix, suffix) ==
    LET before == SubSeq(text, Max(0, index - Len(prefix)) + 1, index)
        after  == SubSeq(text, index + Len(quote) + 1,
                         Min(Len(text), index + Len(quote) + Len(suffix)))
        ps == IF prefix = <<>> THEN 0
              ELSE IF before = prefix THEN 2
              ELSE IF JsIncludes(before, JsSliceLast(prefix, CTX_TAIL)) THEN 1 ELSE 0
        ss == IF suffix = <<>> THEN 0
              ELSE IF after = suffix THEN 2
              ELSE IF JsIncludes(after, JsSliceFirst(suffix, CTX_TAIL)) THEN 1 ELSE 0
    IN  1 + ps + ss

\* C21: the score findQuoteWithContext computes for every occurrence of the
\* quote is the score of the rule, wherever the occurrence lies in its text
ScoreFollowsRule ==
    probe.done =>
        \A o \in OccurrencesUnder(doc, <<>>, probe.quote) :
            ContextScore(NodeAt(doc, o[1]).d, o[2], probe.quote,
                         probe.prefix, probe.suffix)
            = RuleScore(NodeAt(doc, o[1]).d, o[2], probe.quote,
                        probe.prefix, probe.suffix)

-----------------------------------------------------------------------------
(* Restoration: which strategy decides *)

\* the element whose subtree the second strategy scans for the anchor item
\* on the document root, Null when the path of the anchor resolves to nothing
ScannedParent(root, item) ==
    LET textNode == getTextNodeByXPath(root, item.xpath)
    IN  IF textNode = Null THEN Null
        ELSE IF IsText(NodeAt(root, textNode)) THEN ParentPath(textNode)
        ELSE textNode

\* the whole-document search decided the last turn of restoreHighlights or
\* found nothing
SearchedDocument == last.op = "restore" /\ last.tier \in {0, 3}

\* the whole-document search ran only when the path of the anchor resolved
\* to no node
TierThreeOnlyWhenPathStale ==
    SearchedDocument => ScannedParent(pre, cache[last.id]) = Null

\* C22: the whole-document search runs when the path of the anchor
\* resolves to no node or when the quote occurs nowhere in the subtree of
\* the parent of the node it resolves to; the second strategy decides with
\* the first occurrence of the quote in that subtree, in document order
TierThreeAfterTierTwo ==
    last.op = "restore" =>
        LET item   == cache[last.id]
            parent == ScannedParent(pre, item)
            occs   == IF parent = Null THEN {}
                      ELSE OccurrencesUnder(pre, parent, item.quote)
        IN  /\ last.tier \in {0, 3} => occs = {}
            /\ last.tier = 2 =>
                    /\ <<last.node, last.start>> \in occs
                    /\ \A o \in occs :
                          \/ o = <<last.node, last.start>>
                          \/ LexLess(last.node, o[1])
                          \/ o[1] = last.node /\ last.start < o[2]

\* the path of the anchor resolved to a node, its parent's subtree did not
\* hold the quote, and the whole-document search found and marked it
TierThreeWithPathWitness ==
    /\ last.op = "restore" /\ last.tier = 3 /\ last.ok
    /\ ScannedParent(pre, cache[last.id]) # Null

\* C23: among the occurrences of the quote with the score of the one
\* findQuoteWithContext returns, the returned one is the first in document
\* order, and in its Text node the one with the smallest offset
TieGoesToFirst ==
    (probe.done /\ probe.res # NoMatch) =>
        \A o \in OccurrencesUnder(doc, <<>>, probe.quote) :
            ContextScore(NodeAt(doc, o[1]).d, o[2], probe.quote,
                         probe.prefix, probe.suffix)
            = ContextScore(NodeAt(doc, probe.res.node).d, probe.res.start,
                           probe.quote, probe.prefix, probe.suffix)
            => \/ o = <<probe.res.node, probe.res.start>>
               \/ LexLess(probe.res.node, o[1])
               \/ o[1] = probe.res.node /\ probe.res.start < o[2]

\* two paragraphs hold the quote with the stored context around it and so
\* with the same score above 1: the occurrence of the first was returned
TieWitness ==
    /\ probe.done /\ probe.res # NoMatch
    /\ Len(doc.kids) = 2
    /\ probe.res.node = <<1, 1>>
    /\ ContextScore(NodeAt(doc, <<1, 1>>).d, probe.res.start, probe.quote,
                    probe.prefix, probe.suffix) > 1
    /\ \E o \in OccurrencesUnder(doc, <<2>>, probe.quote) :
          ContextScore(NodeAt(doc, o[1]).d, o[2], probe.quote,
                       probe.prefix, probe.suffix)
          = ContextScore(NodeAt(doc, <<1, 1>>).d, probe.res.start, probe.quote,
                         probe.prefix, probe.suffix)

-----------------------------------------------------------------------------
(* Stored data: keys and ids *)

\* C24: every key of the highlights map is a url as normalizeUrl gives it
KeysNormalized == \A k \in DOMAIN store : normalizeUrl(k) = k

\* C25: once the background has handled the message of the dashboard's
\* delete button, the anchor it names is not in the storage
DashboardDeleteRemoves ==
    last.op = "REMOVE_HIGHLIGHT" => last.id \notin StoredIds(store)

-----------------------------------------------------------------------------
(* The background script's handlers, one storage call at a time *)

\* handlers started in one behaviour
MaxRace == 2

\* the messages whose handlers run side by side
RaceMessages ==
    {DataMessage(t, u, id, [color |-> "#69F0AE"], Empty) :
        t \in {"CONTENT_ADD_HIGHLIGHT", "CONTENT_REMOVE_HIGHLIGHT",
               "CONTENT_UPDATE_HIGHLIGHT"},
        u \in DataUrls, id \in 1..MaxData}
    \cup
    {DataMessage("IMPORT_HIGHLIGHTS", <<"", "">>, NoId, [color |-> DefaultColor], h) :
        h \in Snapshots}

\* ids the handlers of type that have started carry
RunningIds(type) ==
    {running[i].m.highlightId : i \in {j \in 1..Len(running) : running[j].m.type = type}}

\* handleAsync() up to its first await: the import asks for the highlights
\* map, the others for the page data
StartHandler(m) ==
    /\ Len(running) < MaxRace
    /\ (m.type = "CONTENT_ADD_HIGHLIGHT") =>
            m.highlightId \notin StoredIds(store) \cup RunningIds(m.type)
    /\ running' = Append(running,
            [m |-> m,
             pc |-> IF m.type = "IMPORT_HIGHLIGHTS" THEN "get"
                    ELSE "getHighlightsForUrl",
             pageData |-> EmptyPage, highlights |-> Empty])
    /\ UNCHANGED <<url, ver, doc, cache, pending, msgs, store, clock, last, pre,
                   wrapInfo, probe, inbox, settings, menus>>

\* what addHighlight, removeHighlight and updateHighlight make of the page
\* data they have read
ChangedPage(pageData, m) ==
    CASE m.type = "CONTENT_ADD_HIGHLIGHT" ->
            [title |-> IF m.title # "" THEN m.title ELSE pageData.title,
             items |-> Append(pageData.items, m.highlightData)]
      [] m.type = "CONTENT_REMOVE_HIGHLIGHT" ->
            [title |-> pageData.title,
             items |-> SelectSeq(pageData.items,
                            LAMBDA item : item.id # m.highlightId)]
      [] OTHER ->
            [title |-> pageData.title,
             items |-> [i \in 1..Len(pageData.items) |->
                          IF /\ pageData.items[i].id = m.highlightId
                             /\ \A j \in 1..(i - 1) :
                                    pageData.items[j].id # m.highlightId
                          THEN Spread(pageData.items[i], m.updates)
                          ELSE pageData.items[i]]]

\* the storage answers getHighlightsForUrl of handler i: the handler changes
\* the page data and calls saveHighlightsForUrl; an update of an id the page
\* does not hold is over
PageRead(i) ==
    /\ running[i].pc = "getHighlightsForUrl"
    /\ \E pageData \in {getHighlightsForUrl(store, running[i].m.url)} :
        IF /\ running[i].m.type = "CONTENT_UPDATE_HIGHLIGHT"
           /\ running[i].m.highlightId \notin PageIds(pageData.items)
        THEN running' = [running EXCEPT ![i].pc = "done"]
        ELSE running' = [running EXCEPT ![i].pc = "get",
                            ![i].pageData = ChangedPage(pageData, running[i].m)]
    /\ UNCHANGED <<url, ver, doc, cache, pending, msgs, store, clock, last, pre,
                   wrapInfo, probe, inbox, settings, menus>>

\* the storage answers the get of the highlights map of handler i:
\* saveHighlightsForUrl puts its page in the map, the import merges the
\* snapshot into it; the handler calls set
MapRead(i) ==
    /\ running[i].pc = "get"
    /\ running' = [running EXCEPT ![i].pc = "set",
            ![i].highlights =
                IF running[i].m.type = "IMPORT_HIGHLIGHTS"
                THEN importHighlights(store, running[i].m.highlights)
                ELSE saveHighlightsForUrl(store, running[i].m.url,
                        running[i].pageData.title, running[i].pageData.items)]
    /\ UNCHANGED <<url, ver, doc, cache, pending, msgs, store, clock, last, pre,
                   wrapInfo, probe, inbox, settings, menus>>

\* the storage takes the set of handler i; the handler answers
MapWrite(i) ==
    /\ running[i].pc = "set"
    /\ store' = running[i].highlights
    /\ running' = [running EXCEPT ![i].pc = "done"]
    /\ UNCHANGED <<url, ver, doc, cache, pending, msgs, clock, last, pre,
                   wrapInfo, probe, inbox, settings, menus>>

NextRace ==
    \/ \E m \in RaceMessages : StartHandler(m)
    \/ \E i \in 1..Len(running) : PageRead(i)
    \/ \E i \in 1..Len(running) : MapRead(i)
    \/ \E i \in 1..Len(running) : MapWrite(i)

SpecRace == InitData /\ [][NextRace]_vars

\* C26: once all the handlers that started have completed, every anchor
\* whose add was answered and that no handler removed is in the storage
NoAddIsLost ==
    (\A i \in 1..Len(running) : running[i].pc = "done") =>
        RunningIds("CONTENT_ADD_HIGHLIGHT") \ RunningIds("CONTENT_REMOVE_HIGHLIGHT")
            \subseteq StoredIds(store)

-----------------------------------------------------------------------------
(* Stored data: ids within a page *)

\* C28: no page record of the storage holds two anchors with the same id
IdsUniqueInPage ==
    \A k \in DOMAIN store :
        \A i, j \in 1..Len(store[k].items) :
            store[k].items[i].id = store[k].items[j].id => i = j

-----------------------------------------------------------------------------
(* Restoration: the anchors of one page, one after the other *)

\* C27: the turn of restoreHighlights for an anchor whose quote occurs
\* within one Text node of the document as it was loaded leaves a marker of
\* the anchor, whatever the turns before it have rendered
RestoreNotPrevented ==
    [][(pending # <<>> /\ pending' = Tail(pending)) =>
        (OccurrencesUnder(PageVersion(ver), <<>>, Head(pending).quote) # {}
            => Rendered(doc', Head(pending).id))]_vars

-----------------------------------------------------------------------------
(* The document session and a snapshot imported for its page *)

\* an anchor of a snapshot file for the first paragraph of the page
MarkAnchor(id) ==
    [id |-> id, quote |-> <<"a", "b">>, prefix |-> <<>>, suffix |-> <<>>,
     color |-> "#69F0AE",
     xpath |-> <<[tag |-> "p", idx |-> 1], [tag |-> "text()", idx |-> 1]>>,
     startOffset |-> 0, endOffset |-> 2, note |-> <<>>, createdAt |-> 9]

\* the highlights object of a snapshot file for the page of the session: an
\* id of its own twice and, once the session has made its first anchor, the
\* id of that anchor (generateId gives no id a file already holds)
MarkSnapshot ==
    [k \in {normalizeUrl(url)} |->
        [title |-> "Snapshot",
         items |-> <<MarkAnchor(MaxHl + 1), MarkAnchor(MaxHl + 1)>>
                   \o (IF clock > 1 THEN <<MarkAnchor(1)>> ELSE <<>>)]]

\* the dashboard imports the snapshot: the handler of IMPORT_HIGHLIGHTS
ImportPage ==
    /\ store' = importHighlights(store, MarkSnapshot)
    /\ store' # store
    /\ last' = [NoOp EXCEPT !.op = "IMPORT_HIGHLIGHTS", !.ok = TRUE]
    /\ UNCHANGED <<url, ver, doc, cache, pending, msgs, clock, pre, wrapInfo, probe,
                   inbox, running, settings, menus>>

\* the versions of the page the session loads: as first served, and with
\* text before the quote
MarkVersions == {1, 3}

NextMark ==
    \/ LifeHighlight
    \/ \E v \in MarkVersions : Reload(v)
    \/ RestoreStep
    \/ \E id \in 1..(MaxHl + 1) : ToolbarDelete(id)
    \/ BgHandle
    \/ ImportPage

SpecMark == Init /\ [][NextMark]_vars

\* C29: the document never has two marker elements with the same anchor id
OneMarkerPerId ==
    \A id \in 1..(MaxHl + 1) : Cardinality(MarkersOf(doc, id)) <= 1

\* restoreHighlights has met an item whose marker was in the document, made
\* by the turn of an item with the same id, and has skipped it
SkippedSecondWitness ==
    /\ last.op = "skip"
    /\ Cardinality(MarkersOf(doc, last.id)) = 1
    /\ Cardinality({i \in 1..Len(getHighlightsForUrl(store, url).items) :
            getHighlightsForUrl(store, url).items[i].id = last.id}) = 2

-----------------------------------------------------------------------------
(* The background script: settings and the context menu *)

DEFAULT_SETTINGS ==
    [lastUsedColor |-> "#FFEB3B", theme |-> "auto", showContextMenu |-> TRUE]

\* MENU_COLORS and the parent item: the ids of the items createContextMenus
\* creates
MenuIds ==
    {"highlighter-parent", "hl-yellow", "hl-green", "hl-blue", "hl-pink",
     "hl-orange", "hl-purple"}

\* getSettings() on the stored settings st
getSettings(st) ==
    IF st = <<>> THEN DEFAULT_SETTINGS ELSE Spread(DEFAULT_SETTINGS, st[1])

\* handlers of UPDATE_SETTINGS started in one behaviour
MaxMenu == 3

\* the script is loaded: initContextMenus() runs up to its await
InitMenu ==
    /\ url = <<"https://site/a", "">>
    /\ ver = 1
    /\ doc = PageVersion(1)
    /\ cache = Empty
    /\ pending = <<>>
    /\ msgs = <<>>
    /\ store = Empty
    /\ clock = 1
    /\ last = NoOp
    /\ pre = PageVersion(1)
    /\ wrapInfo = Empty
    /\ probe = 0
    /\ inbox = <<>>
    /\ running = <<[type |-> "initContextMenus", payload |-> [showContextMenu |-> TRUE],
                    pc |-> "get", read |-> DEFAULT_SETTINGS]>>
    /\ settings = <<>>
    /\ menus = {}

\* handleAsync() for UPDATE_SETTINGS with a payload that sets showContextMenu,
\* up to the await of updateSettings' getSettings()
StartSettings(show) ==
    /\ Len(running) <= MaxMenu
    /\ running' = Append(running,
            [type |-> "UPDATE_SETTINGS", payload |-> [showContextMenu |-> show],
             pc |-> "get", read |-> DEFAULT_SETTINGS])
    /\ UNCHANGED <<url, ver, doc, cache, pending, msgs, store, clock, last, pre,
                   wrapInfo, probe, inbox, settings, menus>>

\* the storage answers the getSettings() of handler i: updateSettings calls
\* set; initContextMenus goes on to createContextMenus() unless the setting
\* is false
SettingsRead(i) ==
    /\ running[i].pc = "get"
    /\ \E s \in {getSettings(settings)} :
        running' = [running EXCEPT ![i].read = s,
                        ![i].pc = IF running[i].type = "UPDATE_SETTINGS" THEN "set"
                                  ELSE IF s.showContextMenu THEN "menu"
                                  ELSE "done"]
    /\ UNCHANGED <<url, ver, doc, cache, pending, msgs, store, clock, last, pre,
                   wrapInfo, probe, inbox, settings, menus>>

\* the storage takes the set of updateSettings of handler i
SettingsWrite(i) ==
    /\ running[i].pc = "set"
    /\ settings' = <<Spread(running[i].read, running[i].payload)>>
    /\ running' = [running EXCEPT ![i].pc = "menu"]
    /\ UNCHANGED <<url, ver, doc, cache, pending, msgs, store, clock, last, pre,
                   wrapInfo, probe, inbox, menus>>

\* handler i goes on after its await: createContextMenus() calls removeAll()
\* and leaves the creation to the callback of its promise; a payload that
\* hides the menu calls removeAll() alone
MenuCall(i) ==
    /\ running[i].pc = "menu"
    /\ menus' = {}
    /\ running' = [running EXCEPT
            ![i].pc = IF running[i].payload.showContextMenu THEN "then" ELSE "done"]
    /\ UNCHANGED <<url, ver, doc, cache, pending, msgs, store, clock, last, pre,
                   wrapInfo, probe, inbox, settings>>

\* the callback of removeAll().then of handler i creates the items; an item
\* that exists stays
MenuCallback(i) ==
    /\ running[i].pc = "then"
    /\ menus' = menus \cup MenuIds
    /\ running' = [running EXCEPT ![i].pc = "done"]
    /\ UNCHANGED <<url, ver, doc, cache, pending, msgs, store, clock, last, pre,
                   wrapInfo, probe, inbox, settings>>

NextMenu ==
    \/ \E show \in BOOLEAN : StartSettings(show)
    \/ \E i \in 1..Len(running) : SettingsRead(i)
    \/ \E i \in 1..Len(running) : SettingsWrite(i)
    \/ \E i \in 1..Len(running) : MenuCall(i)
    \/ \E i \in 1..Len(running) : MenuCallback(i)

SpecMenu == InitMenu /\ [][NextMenu]_vars

\* C30: once every handler and callback that started has run, the items of
\* the context menu exist if and only if the showContextMenu setting read
\* from the storage is true
MenuFollowsSetting ==
    (\A i \in 1..Len(running) : running[i].pc = "done") =>
        ((menus = MenuIds) <=> getSettings(settings).showContextMenu)

=============================================================================
